---- MODULE Spec2Model ----
(***************************************************************************)
(* Turn/phase sequencing, action validation and combat resolution of the   *)
(* SLOP_RUNNER card game engine.                                           *)
(*                                                                         *)
(* The repository holds two families of operations on a GameState:         *)
(*   - GameStateManager / ActionProcessor: a manager object that mutates   *)
(*     its private state in place;                                         *)
(*   - PhaseManager / TurnManager / CombatResolver / ICEMechanics /        *)
(*     ProgramMechanics: static functions from a GameState to a GameState. *)
(* The variable `state` is the GameState a caller holds: the manager's     *)
(* state, and the value threaded through the static functions.             *)
(*                                                                         *)
(* The event log is append-only and is never read by the rules; it is      *)
(* modelled by its length.  Hand, field and payload indices are 0-based    *)
(* as in the source; sequences are 1-based, so index i is element i + 1.   *)
(***************************************************************************)
EXTENDS Integers, Sequences, FiniteSets, TLC

VARIABLES
  state,      \* the GameState
  last,       \* the operation that produced `state`, and how it ended
  destroyed,  \* ids of the cards removed from a field by declareBlock
  cycle,      \* where the current run of consecutive advancePhase calls of
              \* the manager started, and the number of calls in it
  gameLoop,   \* the GameLoop object: its currentState, its exitRequested
              \* flag, and the turn routine it is in
  calc        \* the last call of a function that returns a value and
              \* writes no state: its name, its input and its result

vars == <<state, last, destroyed, cycle, gameLoop, calc>>

(***************************************************************************)
(* Bounds of the exploration.                                              *)
(***************************************************************************)
MaxLog        == 7    \* longest event log explored by Spec
MaxLogManager == 8    \* ... by SpecManager
MaxLogPhase   == 20   \* ... by SpecPhase
MaxLogCombat  == 11   \* ... by SpecCombat
MaxLogCards   == 16   \* ... by SpecCards
MaxLogDraw    == 10   \* ... by SpecDraw
MaxLogHand    == 8    \* ... by SpecHand
MaxLogBlock   == 10   \* ... by SpecBlock
MaxLogAttack  == 6    \* ... by SpecAttack
MaxLogTurn    == 16   \* ... by SpecTurn
MaxLogSetup   == 5    \* ... by SpecSetup
MaxLogWin     == 4    \* ... by SpecWin
MaxLogEnd     == 9    \* ... by SpecEnd
MaxLogSequencer == 12  \* ... by SpecSequencers
MaxLogAbility == 3    \* ... by SpecAbility
MaxLogRetained == 52   \* ... by SpecLog
MAX_LOG_ENTRIES == 50  \* the retention cap the refactor notes propose
MaxPower      == 4    \* largest power of a card handed to calculateDamage
MaxToughness  == 2    \* largest toughness of such a card
MaxNpuPolicy  == 2    \* largest npuAvailable of the Corp in SpecPolicy
MaxCalls      == 2    \* calls of the policy on one state
MaxTurn == 3          \* highest turn number explored
MaxNpu  == 1          \* largest npuTotal explored

\* Opening hands.  The source draws 7 of 13 and 4 of 8 cards; the decks and
\* the opening hands are scaled down together.
RunnerOpeningHand == 1
CorpOpeningHand   == 1
RunnerHandOfThree == 3   \* the Runner's opening hand in SpecHand
\* longest event log of the manager and of the loop in SpecLoop
MaxLogLoop == 22

(***************************************************************************)
(* Enumerations (models/types.ts).                                         *)
(***************************************************************************)
RUNNER == "RUNNER"
CORP   == "CORP"
PlayerType == {RUNNER, CORP}

DRAW   == "DRAW"
NPU    == "NPU"
MAIN   == "MAIN"
COMBAT == "COMBAT"
PhaseType == {DRAW, NPU, MAIN, COMBAT}

PROGRAM == "PROGRAM"
ICE     == "ICE"
CardType == {NPU, PROGRAM, ICE}

FRACTER == "FRACTER"
KILLER  == "KILLER"
DECODER == "DECODER"
ProgramType == {FRACTER, KILLER, DECODER}
BARRIER   == "BARRIER"
SENTRY    == "SENTRY"
CODE_GATE == "CODE_GATE"
IceType == {BARRIER, SENTRY, CODE_GATE}
NoType  == "NONE"      \* programType / iceType of a card that has none
NoWinner == "NONE"     \* winner: undefined

ActionType == {"PLAY_NPU", "PLAY_CARD", "SELECT_CARD", "ATTACK", "BLOCK",
               "END_PHASE", "USE_ABILITY", "HELP", "SAVE", "LOAD", "QUIT"}

(***************************************************************************)
(* Cards (utils/CardFactory).  power and toughness are undefined on an NPU *)
(* card; they are written 0 here and read only through PowerOrZero or      *)
(* after a type check, as in the source.                                   *)
(***************************************************************************)
createNpuCard ==
  [type |-> NPU, cost |-> 0, power |-> 0, toughness |-> 0, sub |-> NoType]

createFracterCard ==
  [type |-> PROGRAM, cost |-> 1, power |-> 1, toughness |-> 2, sub |-> FRACTER]

createBarrierCard ==
  [type |-> ICE, cost |-> 1, power |-> 1, toughness |-> 1, sub |-> BARRIER]

\* The starter decks, scaled down: the source builds 10 NPU + 3 Fracter and
\* 5 NPU + 3 Barrier, each card with a fresh id.
createRunnerStarterDeck == <<"rN1", "rF1">>
createCorpStarterDeck   == <<"cN1", "cB1">>

\* The starter decks at their size in the source, as the factories build
\* them: the NPU cards first.
createRunnerStarterDeckOf13 ==
  <<"rN1", "rN2", "rN3", "rN4", "rN5", "rN6", "rN7", "rN8", "rN9", "rN10",
    "rF1", "rF2", "rF3">>
createCorpStarterDeckOf8 ==
  <<"cN1", "cN2", "cN3", "cN4", "cN5", "cB1", "cB2", "cB3">>

\* the opening hands GameStateManager.setupGame draws
RunnerInitialHand == 7
CorpInitialHand   == 4

\* a Runner deck large enough for a hand of three: two NPU and a Fracter
createRunnerDeckOfThree == <<"rN1", "rN2", "rF1">>

\* The cards the combat tests build (CombatResolver.test.ts): a Fracter and a
\* Barrier of a given power and toughness.
createProgramCard(power, toughness) ==
  [type |-> PROGRAM, cost |-> 2, power |-> power, toughness |-> toughness,
   sub |-> FRACTER]

\* The Sentry the ability tests build (ICEMechanics.test.ts).
createSentryCard ==
  [type |-> ICE, cost |-> 3, power |-> 2, toughness |-> 3, sub |-> SENTRY]

createIceCard(power, toughness) ==
  [type |-> ICE, cost |-> 2, power |-> power, toughness |-> toughness,
   sub |-> BARRIER]

\* The NPU card the policy tests build (CorpAI tests): one with a cost.
createNpuCardOfCost(cost) ==
  [type |-> NPU, cost |-> cost, power |-> 0, toughness |-> 0, sub |-> NoType]

TestPrograms == {"tP14", "tP32"}
TestIce      == {"tI15", "tI22"}

Card(id) ==
  CASE id \in {"rN1", "rN2", "rN3", "rN4", "rN5", "rN6", "rN7", "rN8", "rN9",
               "rN10", "cN1", "cN2", "cN3", "cN4", "cN5"} -> createNpuCard
    [] id \in {"rF1", "rF2", "rF3"} -> createFracterCard
    [] id \in {"cB1", "cB2", "cB3"} -> createBarrierCard
    [] id = "tP14"           -> createProgramCard(1, 4)
    [] id = "tP32"           -> createProgramCard(3, 2)
    [] id = "tI15"           -> createIceCard(1, 5)
    [] id = "tI22"           -> createIceCard(2, 2)
    [] id = "tS23"           -> createSentryCard
    [] id = "tN2"            -> createNpuCardOfCost(2)

(***************************************************************************)
(* Sequence helpers.                                                       *)
(***************************************************************************)
Range(s) == {s[i] : i \in 1..Len(s)}

Min(a, b) == IF a < b THEN a ELSE b
Max(a, b) == IF a > b THEN a ELSE b

\* Array.prototype.slice(from) and slice(0, n)
DropFirst(s, n) == SubSeq(s, n + 1, Len(s))
TakeFirst(s, n) == SubSeq(s, 1, n)

\* the array without its element at 0-based index i (splice(i, 1))
RemoveAt(s, i) == SubSeq(s, 1, i) \o SubSeq(s, i + 2, Len(s))

\* every ordering of a sequence (shuffleDeck can return any of them)
Permutations_(s) ==
  {p \in [1..Len(s) -> Range(s)] : Range(p) = Range(s)}

(***************************************************************************)
(* GameState accessors.                                                    *)
(***************************************************************************)
PlayerState(s, player) == IF player = RUNNER THEN s.runner ELSE s.corp

getOppositePlayer(player) == IF player = RUNNER THEN CORP ELSE RUNNER

\* GameStateManager.logEvent: append one entry
logEvent(s) == [s EXCEPT !.eventLog = @ + 1]

(***************************************************************************)
(* GameStateManager.                                                       *)
(***************************************************************************)
createInitialState ==
  [turn |-> 0, activePlayer |-> RUNNER, phase |-> DRAW,
   runner |-> [deck |-> <<>>, hand |-> <<>>, field |-> <<>>,
               npuAvailable |-> 0, npuTotal |-> 0],
   corp |-> [deck |-> <<>>, hand |-> <<>>, field |-> <<>>,
             npuAvailable |-> 0, npuTotal |-> 0,
             core |-> [maxHp |-> 5, currentHp |-> 5]],
   eventLog |-> 0, gameOver |-> FALSE, winner |-> NoWinner]

checkWinCondition(s) ==
  IF s.corp.core.currentHp = 0
    THEN logEvent([s EXCEPT !.gameOver = TRUE, !.winner = RUNNER])
  ELSE IF Len(s.runner.deck) = 0 /\ s.phase = DRAW
    THEN logEvent([s EXCEPT !.gameOver = TRUE, !.winner = CORP])
  ELSE s

\* drawCards leaving the drawn cards on the deck
drawCards_keepsDeck(s, player, count) ==
  LET playerState    == PlayerState(s, player)
      availableCards == Min(count, Len(playerState.deck))
      drawnCards     == TakeFirst(playerState.deck, availableCards)
  IN IF availableCards = 0
       THEN IF count > 0 THEN checkWinCondition(logEvent(s)) ELSE logEvent(s)
     ELSE IF player = RUNNER
       THEN logEvent([s EXCEPT !.runner.hand = @ \o drawnCards])
     ELSE logEvent([s EXCEPT !.corp.hand = @ \o drawnCards])

drawCards(s, player, count) ==
  LET playerState    == PlayerState(s, player)
      availableCards == Min(count, Len(playerState.deck))
      drawnCards     == TakeFirst(playerState.deck, availableCards)
      remainingDeck  == DropFirst(playerState.deck, availableCards)
  IN IF availableCards = 0
       THEN IF count > 0 THEN checkWinCondition(logEvent(s)) ELSE logEvent(s)
     ELSE IF player = RUNNER
       THEN logEvent([s EXCEPT !.runner.deck = remainingDeck,
                               !.runner.hand = @ \o drawnCards])
     ELSE logEvent([s EXCEPT !.corp.deck = remainingDeck,
                             !.corp.hand = @ \o drawnCards])

\* setupGame with the decks the card factory and the shuffle return, and the
\* sizes of the opening hands (7 and 4 in the source)
setupGame(s, runnerDeck, corpDeck, runnerDraw, corpDraw) ==
  LET s1 == [s EXCEPT !.turn = 1, !.runner.deck = runnerDeck,
                      !.corp.deck = corpDeck, !.eventLog = 1]
  IN drawCards(drawCards(s1, RUNNER, runnerDraw), CORP, corpDraw)

\* playCard putting the card at the front of the field
playCard_frontOfField(s, player, cardIndex) ==
  LET playerState == PlayerState(s, player)
  IN IF cardIndex < 0 \/ cardIndex >= Len(playerState.hand)
       THEN logEvent(s)
     ELSE LET card            == playerState.hand[cardIndex + 1]
              newHand         == RemoveAt(playerState.hand, cardIndex)
              newField        == <<card>> \o playerState.field
              newNpuAvailable == playerState.npuAvailable - Card(card).cost
          IN IF Card(card).cost > playerState.npuAvailable
               THEN logEvent(s)
             ELSE IF player = RUNNER
               THEN logEvent([s EXCEPT !.runner.hand = newHand,
                                       !.runner.field = newField,
                                       !.runner.npuAvailable = newNpuAvailable])
             ELSE logEvent([s EXCEPT !.corp.hand = newHand,
                                     !.corp.field = newField,
                                     !.corp.npuAvailable = newNpuAvailable])

playCard(s, player, cardIndex) ==
  LET playerState == PlayerState(s, player)
  IN IF cardIndex < 0 \/ cardIndex >= Len(playerState.hand)
       THEN logEvent(s)
     ELSE LET card            == playerState.hand[cardIndex + 1]
              newHand         == RemoveAt(playerState.hand, cardIndex)
              newField        == Append(playerState.field, card)
              newNpuAvailable == playerState.npuAvailable - Card(card).cost
          IN IF Card(card).cost > playerState.npuAvailable
               THEN logEvent(s)
             ELSE IF player = RUNNER
               THEN logEvent([s EXCEPT !.runner.hand = newHand,
                                       !.runner.field = newField,
                                       !.runner.npuAvailable = newNpuAvailable])
             ELSE logEvent([s EXCEPT !.corp.hand = newHand,
                                     !.corp.field = newField,
                                     !.corp.npuAvailable = newNpuAvailable])

\* whether playCard(player, cardIndex) takes one of its two refusing branches
playCardRefused(s, player, cardIndex) ==
  LET playerState == PlayerState(s, player)
  IN \/ cardIndex < 0
     \/ cardIndex >= Len(playerState.hand)
     \/ Card(playerState.hand[cardIndex + 1]).cost > playerState.npuAvailable

updateNpu(s, player, amount) ==
  IF player = RUNNER
    THEN logEvent([s EXCEPT
           !.runner.npuAvailable = @ + amount,
           !.runner.npuTotal = IF amount > 0 THEN @ + amount ELSE @])
  ELSE logEvent([s EXCEPT
           !.corp.npuAvailable = @ + amount,
           !.corp.npuTotal = IF amount > 0 THEN @ + amount ELSE @])

\* updateCorpHp without the lower clamp
updateCorpHp_noFloor(s, amount) ==
  LET newHp == Min(s.corp.core.currentHp + amount, s.corp.core.maxHp)
      s1    == logEvent([s EXCEPT !.corp.core.currentHp = newHp])
  IN IF newHp = 0 THEN checkWinCondition(s1) ELSE s1

updateCorpHp(s, amount) ==
  LET newHp == Max(0, Min(s.corp.core.currentHp + amount, s.corp.core.maxHp))
      s1    == logEvent([s EXCEPT !.corp.core.currentHp = newHp])
  IN IF newHp = 0 THEN checkWinCondition(s1) ELSE s1

switchActivePlayer(s) ==
  logEvent([s EXCEPT !.activePlayer = getOppositePlayer(s.activePlayer)])

\* advancePhase, counting a turn at the end of the Runner's COMBAT as well
advancePhase_turnAfterCombat(s) ==
  LET s1 == CASE s.phase = DRAW -> s
              [] s.phase = NPU  -> s
              [] s.phase = MAIN ->
                   IF s.activePlayer = RUNNER THEN s
                   ELSE [switchActivePlayer(s) EXCEPT !.turn = @ + 1]
              [] s.phase = COMBAT ->
                   [switchActivePlayer(s) EXCEPT !.turn = @ + 1]
      nextPhase == CASE s.phase = DRAW -> NPU
                     [] s.phase = NPU  -> MAIN
                     [] s.phase = MAIN ->
                          IF s.activePlayer = RUNNER THEN COMBAT ELSE DRAW
                     [] s.phase = COMBAT -> DRAW
  IN logEvent([s1 EXCEPT !.phase = nextPhase])

advancePhase(s) ==
  LET s1 == CASE s.phase = DRAW -> s
              [] s.phase = NPU  -> s
              [] s.phase = MAIN ->
                   IF s.activePlayer = RUNNER THEN s
                   ELSE [switchActivePlayer(s) EXCEPT !.turn = @ + 1]
              [] s.phase = COMBAT -> switchActivePlayer(s)
      nextPhase == CASE s.phase = DRAW -> NPU
                     [] s.phase = NPU  -> MAIN
                     [] s.phase = MAIN ->
                          IF s.activePlayer = RUNNER THEN COMBAT ELSE DRAW
                     [] s.phase = COMBAT -> DRAW
  IN logEvent([s1 EXCEPT !.phase = nextPhase])

(***************************************************************************)
(* ActionProcessor.  An action is [type, payload]; payload is NoPayload or *)
(* a record [cardIndex, cardType, programIndex].  An operation that can    *)
(* throw yields [state, threw, returned]: the state held afterwards,       *)
(* whether an error was raised, and the GameState handed to the caller.    *)
(***************************************************************************)
NoPayload == [none |-> TRUE]

Returned(s)    == [state |-> s, threw |-> FALSE, returned |-> s]
Thrown(s)      == [state |-> s, threw |-> TRUE,  returned |-> s]

\* isActionAllowed letting ATTACK through in the MAIN phase as well
isActionAllowed_attackInMain(action, s) ==
  IF action.type \in {"END_PHASE", "HELP", "QUIT", "SAVE", "LOAD"} THEN TRUE
  ELSE CASE action.type \in {"PLAY_NPU", "PLAY_CARD"} -> s.phase = MAIN
         [] action.type = "ATTACK"      -> s.phase \in {MAIN, COMBAT}
         [] action.type = "BLOCK"       -> s.phase = COMBAT /\ s.activePlayer = RUNNER
         [] action.type = "USE_ABILITY" -> s.phase = MAIN
         [] OTHER                       -> FALSE

isActionAllowed(action, s) ==
  IF action.type \in {"END_PHASE", "HELP", "QUIT", "SAVE", "LOAD"} THEN TRUE
  ELSE CASE action.type \in {"PLAY_NPU", "PLAY_CARD"} -> s.phase = MAIN
         [] action.type = "ATTACK"      -> s.phase = COMBAT
         [] action.type = "BLOCK"       -> s.phase = COMBAT /\ s.activePlayer = RUNNER
         [] action.type = "USE_ABILITY" -> s.phase = MAIN
         [] OTHER                       -> FALSE

\* TRUE when validateAction returns, FALSE when it throws
validateAction(action, s) ==
  IF s.gameOver THEN action.type = "QUIT"
  ELSE IF s.activePlayer = CORP
    THEN action.type \in {"QUIT", "HELP", "SAVE", "LOAD"}
  ELSE isActionAllowed(action, s)

processPlayNpu(s, action) ==
  IF action.payload = NoPayload \/ action.payload.cardType # NPU
    THEN Thrown(s)
  ELSE Returned(playCard(s, RUNNER, action.payload.cardIndex))

processPlayCard(s, action) ==
  IF action.payload = NoPayload \/ action.payload.cardType = NPU
    THEN Thrown(s)
  ELSE Returned(playCard(s, RUNNER, action.payload.cardIndex))

\* runner.field[i].power || 0
PowerOrZero(id) == IF Card(id).type \in {PROGRAM, ICE} THEN Card(id).power ELSE 0

processAttack(s, action) ==
  IF action.payload = NoPayload THEN Thrown(s)
  ELSE IF \/ action.payload.programIndex < 0
          \/ action.payload.programIndex >= Len(s.runner.field)
    THEN Thrown(s)
  ELSE LET attackPower == PowerOrZero(s.runner.field[action.payload.programIndex + 1])
       IN Returned(updateCorpHp(s, 0 - attackPower))

processEndPhase(s) == Returned(advancePhase(s))

processAction(s, action) ==
  IF ~validateAction(action, s) THEN Thrown(s)
  ELSE CASE action.type = "PLAY_NPU"  -> processPlayNpu(s, action)
         [] action.type = "PLAY_CARD" -> processPlayCard(s, action)
         [] action.type = "ATTACK"    -> processAttack(s, action)
         [] action.type = "END_PHASE" -> processEndPhase(s)
         [] action.type = "HELP"      -> Returned(s)
         [] action.type = "QUIT"      ->
              [state |-> s, threw |-> FALSE,
               returned |-> [s EXCEPT !.gameOver = TRUE]]
         [] OTHER                     -> Thrown(s)

(***************************************************************************)
(* ProgramMechanics and ICEMechanics.                                      *)
(***************************************************************************)
ProgramMechanics_canInstallProgram(s, cardIndex) ==
  /\ ~(cardIndex < 0 \/ cardIndex >= Len(s.runner.hand))
  /\ Card(s.runner.hand[cardIndex + 1]).type = PROGRAM
  /\ ~(s.runner.npuAvailable < Card(s.runner.hand[cardIndex + 1]).cost)

ProgramMechanics_installProgram(s, cardIndex) ==
  IF ~ProgramMechanics_canInstallProgram(s, cardIndex) THEN Thrown(s)
  ELSE LET card == s.runner.hand[cardIndex + 1]
       IN Returned([s EXCEPT
            !.runner.hand = RemoveAt(@, cardIndex),
            !.runner.field = Append(@, card),
            !.runner.npuAvailable = @ - Card(card).cost,
            !.eventLog = @ + 1])

\* the multiplier 1.5 or 1.0, as the fraction [num, den]
\* program and ice are cards here, not ids
ProgramMechanics_calculateEffectiveness(program, iceType) ==
  IF program.sub = FRACTER /\ iceType = BARRIER
    THEN [num |-> 3, den |-> 2]
  ELSE [num |-> 1, den |-> 1]

ProgramMechanics_canAttack(s, programIndex) ==
  /\ ~(programIndex < 0 \/ programIndex >= Len(s.runner.field))
  /\ Card(s.runner.field[programIndex + 1]).type = PROGRAM
  /\ ~(s.phase # COMBAT \/ s.activePlayer # RUNNER)

\* calculateDamage rounding the product up
ProgramMechanics_calculateDamage_roundsUp(program, iceType) ==
  LET baseAttack == program.power
  IN IF iceType # NoType
       THEN LET effectiveness == ProgramMechanics_calculateEffectiveness(program, iceType)
            IN (baseAttack * effectiveness.num + effectiveness.den - 1) \div effectiveness.den
     ELSE baseAttack

\* iceType = NoType stands for the omitted argument
ProgramMechanics_calculateDamage(program, iceType) ==
  LET baseAttack == program.power
  IN IF iceType # NoType
       THEN LET effectiveness == ProgramMechanics_calculateEffectiveness(program, iceType)
            IN (baseAttack * effectiveness.num) \div effectiveness.den
     ELSE baseAttack

ICEMechanics_canInstallICE(s, cardIndex) ==
  /\ ~(cardIndex < 0 \/ cardIndex >= Len(s.corp.hand))
  /\ Card(s.corp.hand[cardIndex + 1]).type = ICE
  /\ ~(s.corp.npuAvailable < Card(s.corp.hand[cardIndex + 1]).cost)
  /\ ~(s.phase # MAIN \/ s.activePlayer # CORP)

ICEMechanics_installICE(s, cardIndex) ==
  IF ~ICEMechanics_canInstallICE(s, cardIndex) THEN Thrown(s)
  ELSE LET card == s.corp.hand[cardIndex + 1]
       IN Returned([s EXCEPT
            !.corp.hand = RemoveAt(@, cardIndex),
            !.corp.field = Append(@, card),
            !.corp.npuAvailable = @ - Card(card).cost,
            !.eventLog = @ + 1])

ICEMechanics_canBlock(s, iceIndex) ==
  /\ ~(iceIndex < 0 \/ iceIndex >= Len(s.corp.field))
  /\ Card(s.corp.field[iceIndex + 1]).type = ICE
  /\ ~(s.phase # COMBAT \/ s.activePlayer # RUNNER)

\* calculateDamage without the Barrier's extra damage
ICEMechanics_calculateDamage_noBonus(ice) == ice.power

ICEMechanics_calculateDamage(ice) ==
  IF ice.sub = BARRIER THEN ice.power + 1 ELSE ice.power

\* useBarrierAbility healing past maxHp
ICEMechanics_useBarrierAbility_noCeiling(s, iceIndex) ==
  IF iceIndex < 0 \/ iceIndex >= Len(s.corp.field) THEN Thrown(s)
  ELSE LET ice == s.corp.field[iceIndex + 1]
           healing == 1
           newHp == s.corp.core.currentHp + healing
       IN IF Card(ice).type # ICE \/ Card(ice).sub # BARRIER THEN Thrown(s)
          ELSE IF s.phase # MAIN \/ s.activePlayer # CORP THEN Thrown(s)
          ELSE Returned([s EXCEPT !.corp.core.currentHp = newHp,
                                  !.eventLog = @ + 1])

ICEMechanics_useBarrierAbility(s, iceIndex) ==
  IF iceIndex < 0 \/ iceIndex >= Len(s.corp.field) THEN Thrown(s)
  ELSE LET ice == s.corp.field[iceIndex + 1]
           healing == 1
           newHp == Min(s.corp.core.currentHp + healing, s.corp.core.maxHp)
       IN IF Card(ice).type # ICE \/ Card(ice).sub # BARRIER THEN Thrown(s)
          ELSE IF s.phase # MAIN \/ s.activePlayer # CORP THEN Thrown(s)
          ELSE Returned([s EXCEPT !.corp.core.currentHp = newHp,
                                  !.eventLog = @ + 1])

(***************************************************************************)
(* PhaseManager.                                                           *)
(***************************************************************************)
PhaseManager_getNextPhase(currentPhase) ==
  CASE currentPhase = DRAW   -> NPU
    [] currentPhase = NPU    -> MAIN
    [] currentPhase = MAIN   -> COMBAT
    [] currentPhase = COMBAT -> DRAW

RECURSIVE PhaseManager_drawCards(_, _, _)
PhaseManager_drawCards(s, player, count) ==
  IF count = 0 THEN s
  ELSE IF player = RUNNER
    THEN IF Len(s.runner.deck) = 0
           THEN [s EXCEPT !.eventLog = @ + 1]
         ELSE PhaseManager_drawCards(
                [s EXCEPT !.runner.deck = Tail(@),
                          !.runner.hand = Append(@, Head(s.runner.deck)),
                          !.eventLog = @ + 1],
                player, count - 1)
  ELSE IF Len(s.corp.deck) = 0
         THEN [s EXCEPT !.eventLog = @ + 1]
       ELSE PhaseManager_drawCards(
              [s EXCEPT !.corp.deck = Tail(@),
                        !.corp.hand = Append(@, Head(s.corp.deck)),
                        !.eventLog = @ + 1],
              player, count - 1)

PhaseManager_executeDraw(s) ==
  LET cardsToDraw == 1
  IN PhaseManager_drawCards(s, s.activePlayer, cardsToDraw)

PhaseManager_executeNPU(s) ==
  IF s.activePlayer = RUNNER
    THEN [s EXCEPT !.runner.npuAvailable = s.runner.npuTotal,
                   !.eventLog = @ + 1]
  ELSE [s EXCEPT !.corp.npuAvailable = s.corp.npuTotal,
                 !.eventLog = @ + 1]

PhaseManager_executePhaseEntryActions(s) ==
  CASE s.phase = DRAW -> PhaseManager_executeDraw(s)
    [] s.phase = NPU  -> PhaseManager_executeNPU(s)
    [] OTHER          -> s

\* PhaseManager.advancePhase without the Corp's skip of COMBAT
PhaseManager_advancePhase_noSkip(s) ==
  LET currentPhase == s.phase
      activePlayer == s.activePlayer
      nextPhase    == PhaseManager_getNextPhase(currentPhase)
      newActivePlayer ==
        IF activePlayer = RUNNER /\ currentPhase = COMBAT THEN CORP
        ELSE activePlayer
      newState == [s EXCEPT
        !.phase = nextPhase,
        !.activePlayer = newActivePlayer,
        !.turn = IF newActivePlayer = CORP /\ nextPhase = DRAW
                   THEN @ + 1 ELSE @,
        !.eventLog = @ + 1]
  IN PhaseManager_executePhaseEntryActions(newState)

PhaseManager_advancePhase(s) ==
  LET currentPhase == s.phase
      activePlayer == s.activePlayer
      skipsCombat  == activePlayer = CORP
                      /\ PhaseManager_getNextPhase(currentPhase) = COMBAT
      nextPhase    == IF skipsCombat THEN DRAW
                      ELSE PhaseManager_getNextPhase(currentPhase)
      newActivePlayer ==
        IF activePlayer = RUNNER /\ currentPhase = COMBAT THEN CORP
        ELSE IF skipsCombat THEN RUNNER
        ELSE activePlayer
      newState == [s EXCEPT
        !.phase = nextPhase,
        !.activePlayer = newActivePlayer,
        !.turn = IF newActivePlayer = CORP /\ nextPhase = DRAW
                   THEN @ + 1 ELSE @,
        !.eventLog = @ + 1]
  IN PhaseManager_executePhaseEntryActions(newState)

\* the action names PhaseManager.isActionAllowed knows
PhaseActionNames ==
  {"PlayNPU", "PlayCard", "Attack", "Block", "EndPhase", "UseAbility"}

PhaseManager_isActionAllowed(s, actionType) ==
  CASE actionType = "PlayNPU"    -> s.phase = MAIN
    [] actionType = "PlayCard"   -> s.phase = MAIN
    [] actionType = "Attack"     -> s.phase = COMBAT /\ s.activePlayer = RUNNER
    [] actionType = "Block"      -> s.phase = COMBAT /\ s.activePlayer = RUNNER
    [] actionType = "EndPhase"   -> TRUE
    [] actionType = "UseAbility" -> s.phase = MAIN
    [] OTHER                     -> FALSE

(***************************************************************************)
(* TurnManager.                                                            *)
(***************************************************************************)
TurnManager_setWinner(s, winner) ==
  [s EXCEPT !.gameOver = TRUE, !.winner = winner, !.eventLog = @ + 1]

\* checkWinConditions counting only the hand as the Runner's cards
TurnManager_checkWinConditions_ignoresDeck(s) ==
  LET runnerHasPrograms ==
        \E i \in 1..Len(s.runner.field) : Card(s.runner.field[i]).type = PROGRAM
      runnerHasCards == Len(s.runner.hand) > 0
  IN IF s.corp.core.currentHp <= 0 THEN TurnManager_setWinner(s, RUNNER)
     ELSE IF ~runnerHasPrograms /\ ~runnerHasCards
       THEN TurnManager_setWinner(s, CORP)
     ELSE s

TurnManager_checkWinConditions(s) ==
  LET runnerHasPrograms ==
        \E i \in 1..Len(s.runner.field) : Card(s.runner.field[i]).type = PROGRAM
      runnerHasCards == Len(s.runner.hand) > 0 \/ Len(s.runner.deck) > 0
  IN IF s.corp.core.currentHp <= 0 THEN TurnManager_setWinner(s, RUNNER)
     ELSE IF ~runnerHasPrograms /\ ~runnerHasCards
       THEN TurnManager_setWinner(s, CORP)
     ELSE s

\* startNewTurn counting a turn for either side
TurnManager_startNewTurn_everyTurn(s) ==
  LET newActivePlayer == getOppositePlayer(s.activePlayer)
      newState == [s EXCEPT
        !.activePlayer = newActivePlayer,
        !.phase = DRAW,
        !.turn = @ + 1,
        !.eventLog = @ + 1]
  IN PhaseManager_advancePhase(newState)

TurnManager_startNewTurn(s) ==
  LET newActivePlayer == getOppositePlayer(s.activePlayer)
      newState == [s EXCEPT
        !.activePlayer = newActivePlayer,
        !.phase = DRAW,
        !.turn = IF newActivePlayer = CORP THEN @ + 1 ELSE @,
        !.eventLog = @ + 1]
  IN PhaseManager_advancePhase(newState)

TurnManager_applyEndOfTurnEffects(s) == s

\* endTurn starting the next turn whether or not the game is over
TurnManager_endTurn_alwaysStarts(s) ==
  LET stateWithLog       == [s EXCEPT !.eventLog = @ + 1]
      stateAfterEffects  == TurnManager_applyEndOfTurnEffects(stateWithLog)
      stateAfterWinCheck == TurnManager_checkWinConditions(stateAfterEffects)
  IN TurnManager_startNewTurn(stateAfterWinCheck)

TurnManager_endTurn(s) ==
  LET stateWithLog       == [s EXCEPT !.eventLog = @ + 1]
      stateAfterEffects  == TurnManager_applyEndOfTurnEffects(stateWithLog)
      stateAfterWinCheck == TurnManager_checkWinConditions(stateAfterEffects)
  IN IF stateAfterWinCheck.gameOver THEN stateAfterWinCheck
     ELSE TurnManager_startNewTurn(stateAfterWinCheck)

TurnManager_advanceToNextPhase(s) ==
  IF \/ s.activePlayer = RUNNER /\ s.phase = COMBAT
     \/ s.activePlayer = CORP /\ s.phase = MAIN
    THEN TurnManager_endTurn(s)
  ELSE PhaseManager_advancePhase(s)

(***************************************************************************)
(* CombatResolver.                                                         *)
(***************************************************************************)
\* declareAttack applying the program's damage to the core at once
CombatResolver_declareAttack_dealsDamage(s, programIndex) ==
  IF ~ProgramMechanics_canAttack(s, programIndex) THEN Thrown(s)
  ELSE Returned([s EXCEPT
         !.eventLog = @ + 1,
         !.corp.core.currentHp =
           Max(0, @ - Card(s.runner.field[programIndex + 1]).power)])

CombatResolver_declareAttack(s, programIndex) ==
  IF ~ProgramMechanics_canAttack(s, programIndex) THEN Thrown(s)
  ELSE Returned([s EXCEPT !.eventLog = @ + 1])

\* applyDamageAndRemoveDestroyed destroying the program only when the damage
\* exceeds its toughness
CombatResolver_applyDamageAndRemoveDestroyed_exceeds(s, programIndex, iceIndex, programDamage, iceDamage) ==
  LET program == s.runner.field[programIndex + 1]
      ice     == s.corp.field[iceIndex + 1]
      isProgramDestroyed == iceDamage > Card(program).toughness
      isIceDestroyed     == programDamage >= Card(ice).toughness
      s1 == IF isProgramDestroyed
              THEN [s EXCEPT !.runner.field = RemoveAt(@, programIndex),
                             !.eventLog = @ + 1]
            ELSE s
  IN IF isIceDestroyed
       THEN [s1 EXCEPT !.corp.field = RemoveAt(@, iceIndex),
                       !.eventLog = @ + 1]
     ELSE s1

CombatResolver_applyDamageAndRemoveDestroyed(s, programIndex, iceIndex, programDamage, iceDamage) ==
  LET program == s.runner.field[programIndex + 1]
      ice     == s.corp.field[iceIndex + 1]
      isProgramDestroyed == iceDamage >= Card(program).toughness
      isIceDestroyed     == programDamage >= Card(ice).toughness
      s1 == IF isProgramDestroyed
              THEN [s EXCEPT !.runner.field = RemoveAt(@, programIndex),
                             !.eventLog = @ + 1]
            ELSE s
  IN IF isIceDestroyed
       THEN [s1 EXCEPT !.corp.field = RemoveAt(@, iceIndex),
                       !.eventLog = @ + 1]
     ELSE s1

CombatResolver_resolveCombat(s, programIndex, iceIndex) ==
  LET program == s.runner.field[programIndex + 1]
      ice     == s.corp.field[iceIndex + 1]
      programDamage == ProgramMechanics_calculateDamage(Card(program), Card(ice).sub)
      iceDamage     == ICEMechanics_calculateDamage(Card(ice))
      stateWithLog  == [s EXCEPT !.eventLog = @ + 2]
  IN CombatResolver_applyDamageAndRemoveDestroyed(
       stateWithLog, programIndex, iceIndex, programDamage, iceDamage)

\* resolveUnblockedAttack without the floor at 0
CombatResolver_resolveUnblockedAttack_noFloor(s, programIndex) ==
  LET program == s.runner.field[programIndex + 1]
      damage  == ProgramMechanics_calculateDamage(Card(program), NoType)
      stateWithLog == [s EXCEPT !.eventLog = @ + 2]
      newCoreHp == s.corp.core.currentHp - damage
  IN [stateWithLog EXCEPT !.corp.core.currentHp = newCoreHp]

CombatResolver_resolveUnblockedAttack(s, programIndex) ==
  LET program == s.runner.field[programIndex + 1]
      damage  == ProgramMechanics_calculateDamage(Card(program), NoType)
      stateWithLog == [s EXCEPT !.eventLog = @ + 2]
      newCoreHp == Max(0, s.corp.core.currentHp - damage)
  IN [stateWithLog EXCEPT !.corp.core.currentHp = newCoreHp]

\* declareBlock letting the attack through when the ICE cannot block
CombatResolver_declareBlock_ignoresBlocker(s, programIndex, iceIndex) ==
  IF ~ProgramMechanics_canAttack(s, programIndex) THEN Thrown(s)
  ELSE IF iceIndex = -1 \/ ~ICEMechanics_canBlock(s, iceIndex)
    THEN Returned(CombatResolver_resolveUnblockedAttack(s, programIndex))
  ELSE Returned(CombatResolver_resolveCombat(
                  [s EXCEPT !.eventLog = @ + 1], programIndex, iceIndex))

\* iceIndex = -1: no block is declared
CombatResolver_declareBlock(s, programIndex, iceIndex) ==
  IF ~ProgramMechanics_canAttack(s, programIndex) THEN Thrown(s)
  ELSE IF iceIndex = -1
    THEN Returned(CombatResolver_resolveUnblockedAttack(s, programIndex))
  ELSE IF ~ICEMechanics_canBlock(s, iceIndex) THEN Thrown(s)
  ELSE Returned(CombatResolver_resolveCombat(
                  [s EXCEPT !.eventLog = @ + 1], programIndex, iceIndex))

CombatResolver_clearCombatEffects(s) == [s EXCEPT !.eventLog = @ + 1]

\* the cards that leave the fields between two states
LeftField(s, t) ==
  (Range(s.runner.field) \cup Range(s.corp.field))
    \ (Range(t.runner.field) \cup Range(t.corp.field))

(***************************************************************************)
(* PhaseManager.setupNewGame: the starter decks as the factories build     *)
(* them, the Runner's first draw, and the step into the NPU phase.         *)
(***************************************************************************)
\* setupNewGame on the decks the factories return
PhaseManager_setupNewGameWith(runnerDeck, corpDeck) ==
  LET initialState ==
        [turn |-> 1, activePlayer |-> RUNNER, phase |-> DRAW,
         runner |-> [deck |-> runnerDeck, hand |-> <<>>,
                     field |-> <<>>, npuAvailable |-> 0, npuTotal |-> 0],
         corp |-> [deck |-> corpDeck, hand |-> <<>>,
                   field |-> <<>>, npuAvailable |-> 0, npuTotal |-> 0,
                   core |-> [maxHp |-> 10, currentHp |-> 10]],
         eventLog |-> 1, gameOver |-> FALSE, winner |-> NoWinner]
      afterDrawState == PhaseManager_executeDraw(initialState)
  IN PhaseManager_advancePhase(afterDrawState)

PhaseManager_setupNewGame ==
  PhaseManager_setupNewGameWith(createRunnerStarterDeck, createCorpStarterDeck)

(***************************************************************************)
(* CorpAI.  An action of the policy is [type, index]; NoAction is null.    *)
(***************************************************************************)
NoAction == [type |-> "null", index |-> -1]

LegacyAction(type, index) == [type |-> type, index |-> index]

\* the first hand index (from 0) of an affordable card of the type, or -1
CorpAI_findPlayableIndex(s, type) ==
  LET playable == {i \in 1..Len(s.corp.hand) :
                     /\ Card(s.corp.hand[i]).type = type
                     /\ Card(s.corp.hand[i]).cost <= s.corp.npuAvailable}
  IN IF playable = {} THEN -1
     ELSE (CHOOSE i \in playable : \A j \in playable : i <= j) - 1

CorpAI_findPlayableNpuCardIndex(s) == CorpAI_findPlayableIndex(s, NPU)

CorpAI_findPlayableIceCardIndex(s) == CorpAI_findPlayableIndex(s, ICE)

\* getMainPhaseAction looking for ICE before NPU cards
CorpAI_getMainPhaseAction_iceFirst(s) ==
  LET npuCardIndex == CorpAI_findPlayableNpuCardIndex(s)
      iceCardIndex == CorpAI_findPlayableIceCardIndex(s)
  IN IF iceCardIndex # -1 THEN LegacyAction("PlayCard", iceCardIndex)
     ELSE IF npuCardIndex # -1 THEN LegacyAction("PlayNPU", npuCardIndex)
     ELSE LegacyAction("EndPhase", -1)

CorpAI_getMainPhaseAction(s) ==
  LET npuCardIndex == CorpAI_findPlayableNpuCardIndex(s)
      iceCardIndex == CorpAI_findPlayableIceCardIndex(s)
  IN IF npuCardIndex # -1 THEN LegacyAction("PlayNPU", npuCardIndex)
     ELSE IF iceCardIndex # -1 THEN LegacyAction("PlayCard", iceCardIndex)
     ELSE LegacyAction("EndPhase", -1)

\* getBlockingDecision blocking with the newest ICE that can block
CorpAI_getBlockingDecision_newest(s) ==
  LET blocking == {i \in 0..(Len(s.corp.field) - 1) : ICEMechanics_canBlock(s, i)}
  IN IF Len(s.corp.field) = 0 \/ blocking = {} THEN NoAction
     ELSE LegacyAction("Block", CHOOSE i \in blocking : \A j \in blocking : i >= j)

CorpAI_getBlockingDecision(s) ==
  LET blocking == {i \in 0..(Len(s.corp.field) - 1) : ICEMechanics_canBlock(s, i)}
  IN IF Len(s.corp.field) = 0 \/ blocking = {} THEN NoAction
     ELSE LegacyAction("Block", CHOOSE i \in blocking : \A j \in blocking : i <= j)

\* getNextAction with a memory: asked again, it passes
CorpAI_getNextAction_remembers(s) ==
  IF calc.op = "CorpAI.getNextAction" /\ calc.result # LegacyAction("EndPhase", -1)
    THEN LegacyAction("EndPhase", -1)
  ELSE IF s.activePlayer # CORP
    THEN IF s.phase = COMBAT THEN CorpAI_getBlockingDecision(s) ELSE NoAction
  ELSE CASE s.phase \in {DRAW, NPU} -> LegacyAction("EndPhase", -1)
         [] s.phase = MAIN          -> CorpAI_getMainPhaseAction(s)
         [] OTHER                   -> NoAction

CorpAI_getNextAction(s) ==
  IF s.activePlayer # CORP
    THEN IF s.phase = COMBAT THEN CorpAI_getBlockingDecision(s) ELSE NoAction
  ELSE CASE s.phase \in {DRAW, NPU} -> LegacyAction("EndPhase", -1)
         [] s.phase = MAIN          -> CorpAI_getMainPhaseAction(s)
         [] OTHER                   -> NoAction

(***************************************************************************)
(* GameLoop.                                                               *)
(***************************************************************************)
\* the object after `new GameLoop()`: an empty currentState of its own
GameLoop_constructor ==
  [currentState |-> [createInitialState EXCEPT
                       !.corp.core = [maxHp |-> 10, currentHp |-> 10]],
   exitRequested |-> FALSE,
   pc |-> "start"]

GameLoop_initializeNewGame == PhaseManager_setupNewGame

GameLoop_convertLegacyAction(legacyAction) ==
  CASE legacyAction.type = "PlayNPU" ->
         [type |-> "PLAY_NPU",
          payload |-> [cardIndex |-> legacyAction.index, cardType |-> NPU,
                       programIndex |-> 0]]
    [] legacyAction.type = "PlayCard" ->
         [type |-> "PLAY_CARD",
          payload |-> [cardIndex |-> legacyAction.index, cardType |-> ICE,
                       programIndex |-> 0]]
    [] legacyAction.type = "Attack" ->
         [type |-> "ATTACK",
          payload |-> [cardIndex |-> 0, cardType |-> PROGRAM,
                       programIndex |-> legacyAction.index]]
    [] legacyAction.type = "Quit" -> [type |-> "QUIT", payload |-> NoPayload]
    [] legacyAction.type = "Help" -> [type |-> "HELP", payload |-> NoPayload]
    [] OTHER -> [type |-> "END_PHASE", payload |-> NoPayload]

\* the routine the loop of start() is in once a turn routine has returned
GameLoop_processTurn(currentState, exitRequested) ==
  IF currentState.gameOver \/ exitRequested THEN "shutdown"
  ELSE IF currentState.activePlayer = RUNNER THEN "processRunnerTurn"
  ELSE "processCorpTurn"

\* where the loop is after one pass of a turn routine's while loop
GameLoop_afterPass(pc, complete, currentState, exitRequested) ==
  IF complete \/ currentState.gameOver \/ exitRequested
    THEN GameLoop_processTurn(currentState, exitRequested)
  ELSE pc

\* one pass of processRunnerTurn on an action other than QUIT and HELP:
\* the state the loop keeps, and whether the turn is complete
GameLoop_runnerPass(returned, action) ==
  IF action.type # "END_PHASE" THEN [currentState |-> returned, complete |-> FALSE]
  ELSE IF returned.phase = COMBAT
    THEN [currentState |-> TurnManager_endTurn(returned), complete |-> TRUE]
  ELSE [currentState |-> TurnManager_advanceToNextPhase(returned), complete |-> FALSE]

\* one pass of processCorpTurn on an action the processor accepted
GameLoop_corpPass(returned, corpAction) ==
  IF corpAction.type # "EndPhase" THEN [currentState |-> returned, complete |-> FALSE]
  ELSE IF returned.phase = MAIN
    THEN [currentState |-> TurnManager_endTurn(returned), complete |-> TRUE]
  ELSE [currentState |-> TurnManager_advanceToNextPhase(returned), complete |-> FALSE]

(***************************************************************************)
(* Initial states: a manager built on createInitialState, then setupGame   *)
(* with any shuffle of the two starter decks.                              *)
(***************************************************************************)
Position(s) == [phase |-> s.phase, activePlayer |-> s.activePlayer, turn |-> s.turn]

\* `calc` before any function has been called
NoCalc == [op |-> "-", input |-> "-", result |-> "-"]

\* `last.at` of every operation but a declareBlock that returned
NoIndices == [programIndex |-> -1, iceIndex |-> -1]

NoOp == [op |-> "setupGame", arg |-> "-", outcome |-> "ok", at |-> NoIndices]

Init ==
  /\ \E runnerDeck \in Permutations_(createRunnerStarterDeck),
        corpDeck \in Permutations_(createCorpStarterDeck) :
       state = setupGame(createInitialState, runnerDeck, corpDeck,
                         RunnerOpeningHand, CorpOpeningHand)
  /\ last = NoOp
  /\ destroyed = {}
  /\ cycle = [start |-> Position(state), calls |-> 0]
  /\ gameLoop = GameLoop_constructor
  /\ calc = NoCalc

\* setupGame on a Runner deck of three cards, all of them drawn
InitHand ==
  /\ \E runnerDeck \in Permutations_(createRunnerDeckOfThree),
        corpDeck \in Permutations_(createCorpStarterDeck) :
       state = setupGame(createInitialState, runnerDeck, corpDeck,
                         RunnerHandOfThree, CorpOpeningHand)
  /\ last = NoOp
  /\ destroyed = {}
  /\ cycle = [start |-> Position(state), calls |-> 0]
  /\ gameLoop = GameLoop_constructor
  /\ calc = NoCalc

\* the fields a side can have built from a set of cards: some of them, in
\* any order
Fields(cards) ==
  {f \in UNION {[1..n -> cards] : n \in 0..Cardinality(cards)} :
     \A i, j \in DOMAIN f : f[i] = f[j] => i = j}

\* combat: the Runner's COMBAT phase with programs and ICE installed
InitBlock ==
  /\ \E runnerField \in Fields({"rF1"} \cup TestPrograms),
        corpField \in Fields({"cB1"} \cup TestIce) :
       state = [createInitialState EXCEPT !.turn = 1, !.phase = COMBAT,
                                          !.runner.field = runnerField,
                                          !.corp.field = corpField]
  /\ last = NoOp
  /\ destroyed = {}
  /\ cycle = [start |-> Position(state), calls |-> 0]
  /\ gameLoop = GameLoop_constructor
  /\ calc = NoCalc

\* combat called in any phase of either side, with cards of any type on the
\* fields (GameStateManager.playCard puts an NPU card on the field too)
InitAttack ==
  /\ \E phase \in PhaseType, activePlayer \in PlayerType,
        runnerField \in Fields({"rF1", "rN1"}),
        corpField \in Fields({"cB1", "cN1"}) :
       state = [createInitialState EXCEPT !.turn = 1, !.phase = phase,
                                          !.activePlayer = activePlayer,
                                          !.runner.field = runnerField,
                                          !.corp.field = corpField]
  /\ last = NoOp
  /\ destroyed = {}
  /\ cycle = [start |-> Position(state), calls |-> 0]
  /\ gameLoop = GameLoop_constructor
  /\ calc = NoCalc

\* the opponent policy asked in any phase of either side: the Corp holds
\* some of an NPU card, an NPU card of cost 2, a Barrier and an ICE of cost 2,
\* and has some of two ICE and an NPU card on the field
PolicyHandCards  == {"cN1", "tN2", "cB1", "tI22"}
PolicyFieldCards == {"tI15", "cB2", "cN2"}

InitPolicy ==
  /\ \E phase \in PhaseType, activePlayer \in PlayerType,
        corpHand \in Fields(PolicyHandCards),
        corpField \in Fields(PolicyFieldCards),
        npuAvailable \in 0..MaxNpuPolicy :
       state = [createInitialState EXCEPT !.turn = 1, !.phase = phase,
                                          !.activePlayer = activePlayer,
                                          !.corp.hand = corpHand,
                                          !.corp.field = corpField,
                                          !.corp.npuAvailable = npuAvailable,
                                          !.corp.npuTotal = npuAvailable]
  /\ last = NoOp
  /\ destroyed = {}
  /\ cycle = [start |-> Position(state), calls |-> 0]
  /\ gameLoop = GameLoop_constructor
  /\ calc = NoCalc

\* shuffleDeck, up to the order of equal cards: the deck with its last
\* `others` cards moved to any places
shuffleDeck(deck, others) ==
  LET n == Len(deck)
      first(k) == deck[k]
      other(k) == deck[n - others + k]
      Before(places, i) == Cardinality({j \in places : j <= i})
  IN {[i \in 1..n |-> IF i \in places THEN other(Before(places, i))
                      ELSE first(i - Before(places, i))] :
        places \in {ps \in SUBSET (1..n) : Cardinality(ps) = others}}

\* before any setup: a manager and a loop fresh from their constructors
InitSetup ==
  /\ state = createInitialState
  /\ last = [op |-> "constructor", arg |-> "-", outcome |-> "ok", at |-> NoIndices]
  /\ destroyed = {}
  /\ cycle = [start |-> Position(state), calls |-> 0]
  /\ gameLoop = GameLoop_constructor
  /\ calc = NoCalc

(***************************************************************************)
(* Inputs.                                                                 *)
(***************************************************************************)
Indices     == -1..1                 \* hand, field and payload indices
DrawCounts  == 0..2
NpuAmounts  == {-1, 1}
HpAmounts   == {-5, -4, 1}

\* advancePhase calls in a full cycle: one per phase of the Runner's turn,
\* and one per phase but COMBAT of the Corp's
CycleLength == Cardinality(PhaseType) + (Cardinality(PhaseType) - 1)

\* the payloads an action type is sent with: none, or the fields it reads
Payloads(type) ==
  {NoPayload} \cup
  CASE type \in {"PLAY_NPU", "PLAY_CARD"} ->
         [cardIndex : Indices, cardType : CardType, programIndex : {0}]
    [] type = "ATTACK" ->
         [cardIndex : {0}, cardType : {PROGRAM}, programIndex : Indices]
    [] OTHER -> {}

UserActions ==
  UNION {[type : {type}, payload : Payloads(type)] : type \in ActionType}

\* the exploration stops at the bounds; cap bounds the length of the log
InBounds(s, cap) ==
  /\ s.eventLog <= cap
  /\ s.turn <= MaxTurn
  /\ s.runner.npuTotal <= MaxNpu
  /\ s.corp.npuTotal <= MaxNpu

\* a state in which a side has spent NPU it did not have is explored no further
Solvent(s) == s.runner.npuAvailable >= 0 /\ s.corp.npuAvailable >= 0

\* the run of consecutive GameStateManager.advancePhase calls after this call
NextCycle(op, s) ==
  IF op = "advancePhase"
    THEN IF cycle.calls < CycleLength
           THEN [cycle EXCEPT !.calls = @ + 1]
         ELSE [start |-> Position(state), calls |-> 1]
  ELSE [start |-> Position(s), calls |-> 0]

\* one call of an operation; `at` is the pair of indices it was given
StepAt(cap, op, arg, outcome, at, s) ==
  /\ Solvent(state)
  /\ state' = s
  /\ InBounds(state', cap)
  /\ last' = [op |-> op, arg |-> arg, outcome |-> outcome, at |-> at]
  /\ destroyed' = IF op = "declareBlock"
                    THEN destroyed \cup LeftField(state, state')
                  ELSE destroyed
  /\ cycle' = NextCycle(op, state')
  /\ gameLoop' = gameLoop
  /\ calc' = calc

\* one call of an operation that cannot throw
Step(cap, op, arg, outcome, s) == StepAt(cap, op, arg, outcome, NoIndices, s)

\* one call of an operation that yields [state, threw, returned]
Call(cap, op, arg, result) ==
  \E r \in {result} :
    Step(cap, op, arg, IF r.threw THEN "threw" ELSE "ok", r.state)

(***************************************************************************)
(* Actions: one per public operation.                                      *)
(***************************************************************************)
DoDrawCards(cap) ==
  \E player \in PlayerType, count \in DrawCounts :
    Step(cap, "drawCards", player,
         IF count = 0 THEN "none"
         ELSE IF Len(PlayerState(state, player).deck) = 0 THEN "empty"
         ELSE "ok",
         drawCards(state, player, count))

DoPlayCard(cap) ==
  \E player \in PlayerType, cardIndex \in Indices :
    Step(cap, "playCard", player,
         IF playCardRefused(state, player, cardIndex) THEN "refused" ELSE "ok",
         playCard(state, player, cardIndex))

DoUpdateNpu(cap) ==
  \E player \in PlayerType, amount \in NpuAmounts :
    Step(cap, "updateNpu", player, "ok", updateNpu(state, player, amount))

DoUpdateCorpHp(cap) ==
  \E amount \in HpAmounts :
    Step(cap, "updateCorpHp", "-", "ok", updateCorpHp(state, amount))

DoLogEvent(cap) ==
  Step(cap, "logEvent", "-", "ok", logEvent(state))

DoSwitchActivePlayer(cap) ==
  Step(cap, "switchActivePlayer", "-", "ok", switchActivePlayer(state))

DoAdvancePhase(cap) ==
  Step(cap, "advancePhase", "-", "ok", advancePhase(state))

DoCheckWinCondition(cap) ==
  Step(cap, "checkWinCondition", "-", "ok", checkWinCondition(state))

\* `last` keeps the type of an action that was accepted, and whether the
\* playCard call it led to took a refusing branch
DoProcessAction(cap) ==
  \E action \in UserActions :
    \E r \in {processAction(state, action)} :
      Step(cap, "processAction", IF r.threw THEN "-" ELSE action.type,
           IF r.threw THEN "threw"
           ELSE IF /\ action.type \in {"PLAY_NPU", "PLAY_CARD"}
                   /\ playCardRefused(state, RUNNER, action.payload.cardIndex)
             THEN "refused"
           ELSE "ok",
           r.state)

DoPhaseManagerAdvancePhase(cap) ==
  Step(cap, "PhaseManager.advancePhase", "-", "ok",
       PhaseManager_advancePhase(state))

DoAdvanceToNextPhase(cap) ==
  Step(cap, "TurnManager.advanceToNextPhase", "-", "ok",
       TurnManager_advanceToNextPhase(state))

DoEndTurn(cap) ==
  Step(cap, "TurnManager.endTurn", "-", "ok", TurnManager_endTurn(state))

DoStartNewTurn(cap) ==
  Step(cap, "TurnManager.startNewTurn", "-", "ok",
       TurnManager_startNewTurn(state))

DoCheckWinConditions(cap) ==
  Step(cap, "TurnManager.checkWinConditions", "-", "ok",
       TurnManager_checkWinConditions(state))

DoInstallProgram(cap) ==
  \E cardIndex \in Indices :
    Call(cap, "installProgram", "-",
         ProgramMechanics_installProgram(state, cardIndex))

DoInstallICE(cap) ==
  \E cardIndex \in Indices :
    Call(cap, "installICE", "-", ICEMechanics_installICE(state, cardIndex))

DoUseBarrierAbility(cap) ==
  \E iceIndex \in Indices :
    Call(cap, "useBarrierAbility", "-",
         ICEMechanics_useBarrierAbility(state, iceIndex))

DoDeclareAttack(cap) ==
  \E programIndex \in Indices :
    Call(cap, "declareAttack", "-",
         CombatResolver_declareAttack(state, programIndex))

\* `last.at` keeps the indices of a declareBlock that returned
DoDeclareBlock(cap) ==
  \E programIndex \in Indices, iceIndex \in Indices :
    \E r \in {CombatResolver_declareBlock(state, programIndex, iceIndex)} :
      StepAt(cap, "declareBlock",
             IF iceIndex = -1 THEN "unblocked" ELSE "blocked",
             IF r.threw THEN "threw" ELSE "ok",
             IF r.threw THEN NoIndices
             ELSE [programIndex |-> programIndex, iceIndex |-> iceIndex],
             r.state)

DoClearCombatEffects(cap) ==
  Step(cap, "clearCombatEffects", "-", "ok",
       CombatResolver_clearCombatEffects(state))

(***************************************************************************)
(* Specifications.  Spec interleaves every public operation; the others    *)
(* interleave the operations of one component, to a greater depth.         *)
(***************************************************************************)
Next ==
  \/ DoDrawCards(MaxLog)
  \/ DoPlayCard(MaxLog)
  \/ DoUpdateNpu(MaxLog)
  \/ DoUpdateCorpHp(MaxLog)
  \/ DoSwitchActivePlayer(MaxLog)
  \/ DoAdvancePhase(MaxLog)
  \/ DoCheckWinCondition(MaxLog)
  \/ DoProcessAction(MaxLog)
  \/ DoPhaseManagerAdvancePhase(MaxLog)
  \/ DoAdvanceToNextPhase(MaxLog)
  \/ DoEndTurn(MaxLog)
  \/ DoStartNewTurn(MaxLog)
  \/ DoCheckWinConditions(MaxLog)
  \/ DoInstallProgram(MaxLog)
  \/ DoInstallICE(MaxLog)
  \/ DoUseBarrierAbility(MaxLog)
  \/ DoDeclareAttack(MaxLog)
  \/ DoDeclareBlock(MaxLog)
  \/ DoClearCombatEffects(MaxLog)

Spec == Init /\ [][Next]_vars

\* GameStateManager and ActionProcessor
NextManager ==
  \/ DoDrawCards(MaxLogManager)
  \/ DoPlayCard(MaxLogManager)
  \/ DoUpdateNpu(MaxLogManager)
  \/ DoUpdateCorpHp(MaxLogManager)
  \/ DoSwitchActivePlayer(MaxLogManager)
  \/ DoAdvancePhase(MaxLogManager)
  \/ DoCheckWinCondition(MaxLogManager)
  \/ DoProcessAction(MaxLogManager)

SpecManager == Init /\ [][NextManager]_vars

\* the three phase sequencers
NextPhase ==
  \/ DoAdvancePhase(MaxLogPhase)
  \/ DoPhaseManagerAdvancePhase(MaxLogPhase)
  \/ DoAdvanceToNextPhase(MaxLogPhase)

SpecPhase == Init /\ [][NextPhase]_vars

\* the operations that change the core's health, and those that set up a fight
NextCombat ==
  \/ DoUpdateNpu(MaxLogCombat)
  \/ DoPlayCard(MaxLogCombat)
  \/ DoAdvancePhase(MaxLogCombat)
  \/ DoSwitchActivePlayer(MaxLogCombat)
  \/ DoUpdateCorpHp(MaxLogCombat)
  \/ DoProcessAction(MaxLogCombat)
  \/ DoDeclareBlock(MaxLogCombat)
  \/ DoUseBarrierAbility(MaxLogCombat)

SpecCombat == Init /\ [][NextCombat]_vars

\* the operations that move cards between zones
NextCards ==
  \/ DoUpdateNpu(MaxLogCards)
  \/ DoDrawCards(MaxLogCards)
  \/ DoPlayCard(MaxLogCards)
  \/ DoInstallProgram(MaxLogCards)
  \/ DoInstallICE(MaxLogCards)
  \/ DoPhaseManagerAdvancePhase(MaxLogCards)
  \/ DoDeclareBlock(MaxLogCards)

SpecCards == Init /\ [][NextCards]_vars

\* GameStateManager.drawCards and the three phase sequencers
NextDraw ==
  \/ DoDrawCards(MaxLogDraw)
  \/ DoAdvancePhase(MaxLogDraw)
  \/ DoPhaseManagerAdvancePhase(MaxLogDraw)
  \/ DoAdvanceToNextPhase(MaxLogDraw)

SpecDraw == Init /\ [][NextDraw]_vars

\* playing cards from a hand of three
NextHand ==
  \/ DoPlayCard(MaxLogHand)
  \/ DoUpdateNpu(MaxLogHand)
  \/ DoAdvancePhase(MaxLogHand)
  \/ DoProcessAction(MaxLogHand)

SpecHand == InitHand /\ [][NextHand]_vars

\* combat between installed cards
NextBlock ==
  \/ DoDeclareAttack(MaxLogBlock)
  \/ DoDeclareBlock(MaxLogBlock)
  \/ DoClearCombatEffects(MaxLogBlock)

SpecBlock == InitBlock /\ [][NextBlock]_vars

\* phases and turns of the static managers
NextTurn ==
  \/ DoPhaseManagerAdvancePhase(MaxLogTurn)
  \/ DoStartNewTurn(MaxLogTurn)
  \/ DoSwitchActivePlayer(MaxLogTurn)

SpecTurn == Init /\ [][NextTurn]_vars

\* declaring attacks and blocks in any phase
NextAttack ==
  \/ DoDeclareAttack(MaxLogAttack)
  \/ DoDeclareBlock(MaxLogAttack)

SpecAttack == InitAttack /\ [][NextAttack]_vars

\* The same states attacked through the processor's ATTACK action as well.
AttackAction(programIndex) ==
  GameLoop_convertLegacyAction(LegacyAction("Attack", programIndex))

DoProcessAttack(cap) ==
  \E programIndex \in Indices :
    \E r \in {processAction(state, AttackAction(programIndex))} :
      StepAt(cap, "processAction", "ATTACK",
             IF r.threw THEN "threw" ELSE "ok",
             [programIndex |-> programIndex, iceIndex |-> -1], r.state)

NextAttackAction ==
  \/ DoProcessAttack(MaxLogAttack)
  \/ DoDeclareAttack(MaxLogAttack)
  \/ DoDeclareBlock(MaxLogAttack)

SpecAttackAction == InitAttack /\ [][NextAttackAction]_vars

(***************************************************************************)
(* The damage functions, applied to cards of every subtype.                *)
(***************************************************************************)
ProgramCards ==
  [type : {PROGRAM}, cost : {2}, power : 0..MaxPower,
   toughness : 1..MaxToughness, sub : ProgramType]

IceCards ==
  [type : {ICE}, cost : {2}, power : 0..MaxPower,
   toughness : 1..MaxToughness, sub : IceType]

\* one call of a function: only `calc` changes
Calculate(op, input, result) ==
  /\ calc' = [op |-> op, input |-> input, result |-> result]
  /\ UNCHANGED <<state, last, destroyed, cycle, gameLoop>>

DoProgramCalculateDamage ==
  \E program \in ProgramCards, iceType \in IceType \cup {NoType} :
    Calculate("ProgramMechanics.calculateDamage",
              [program |-> program, iceType |-> iceType],
              ProgramMechanics_calculateDamage(program, iceType))

DoIceCalculateDamage ==
  \E ice \in IceCards :
    Calculate("ICEMechanics.calculateDamage", [ice |-> ice],
              ICEMechanics_calculateDamage(ice))

NextDamage ==
  \/ DoProgramCalculateDamage
  \/ DoIceCalculateDamage

SpecDamage == Init /\ [][NextDamage]_vars

(***************************************************************************)
(* The opponent policy, asked up to MaxCalls times on the same state.      *)
(***************************************************************************)
DoGetNextAction ==
  \E r \in {CorpAI_getNextAction(state)} :
    /\ calc' = [op |-> "CorpAI.getNextAction", input |-> state, result |-> r,
                call |-> IF calc.op = "CorpAI.getNextAction"
                           THEN calc.call + 1 ELSE 1]
    /\ calc'.call <= MaxCalls
    /\ UNCHANGED <<state, last, destroyed, cycle, gameLoop>>

NextPolicy == DoGetNextAction

SpecPolicy == InitPolicy /\ [][NextPolicy]_vars

(***************************************************************************)
(* The two setup routines, on the starter decks of 13 and 8 cards.         *)
(***************************************************************************)
FractersInDeck == Cardinality({i \in DOMAIN createRunnerStarterDeckOf13 : Card(createRunnerStarterDeckOf13[i]).type = PROGRAM})
BarriersInDeck == Cardinality({i \in DOMAIN createCorpStarterDeckOf8 : Card(createCorpStarterDeckOf8[i]).type = ICE})

DoSetupGame ==
  /\ last.op = "constructor"
  /\ \E runnerDeck \in shuffleDeck(createRunnerStarterDeckOf13, FractersInDeck),
        corpDeck \in shuffleDeck(createCorpStarterDeckOf8, BarriersInDeck) :
       Step(MaxLogSetup, "GameStateManager.setupGame", "-", "ok",
            setupGame(state, runnerDeck, corpDeck,
                      RunnerInitialHand, CorpInitialHand))

\* setupNewGame shuffles nothing
DoSetupNewGame ==
  /\ last.op = "constructor"
  /\ Step(MaxLogSetup, "PhaseManager.setupNewGame", "-", "ok",
          PhaseManager_setupNewGameWith(createRunnerStarterDeckOf13,
                                        createCorpStarterDeckOf8))

NextSetup ==
  \/ DoSetupGame
  \/ DoSetupNewGame

SpecSetup == InitSetup /\ [][NextSetup]_vars

\* The states TurnManager.checkWinConditions is called on: a game in the
\* Runner's DRAW phase with any of the Runner's piles empty or not, and a core
\* at full health, at 1, or at 0 (where an unblocked attack leaves it
\* without ending the game).
WinHp == {0, 1, 5}

InitWin ==
  /\ \E runnerField \in Fields({"rF1", "rN1"}),
        runnerHand \in Fields({"rN2"}),
        runnerDeck \in Fields({"rN3"}),
        currentHp \in WinHp :
       state = [createInitialState EXCEPT !.turn = 1,
                                          !.runner.field = runnerField,
                                          !.runner.hand = runnerHand,
                                          !.runner.deck = runnerDeck,
                                          !.corp.core.currentHp = currentHp]
  /\ last = NoOp
  /\ destroyed = {}
  /\ cycle = [start |-> Position(state), calls |-> 0]
  /\ gameLoop = GameLoop_constructor
  /\ calc = NoCalc

NextWin ==
  \/ DoDrawCards(MaxLogWin)
  \/ DoUpdateCorpHp(MaxLogWin)
  \/ DoCheckWinConditions(MaxLogWin)

SpecWin == InitWin /\ [][NextWin]_vars

\* The two phase sequencers driving the same game.
NextSequencers ==
  \/ DoAdvancePhase(MaxLogSequencer)
  \/ DoAdvanceToNextPhase(MaxLogSequencer)

SpecSequencers == Init /\ [][NextSequencers]_vars

\* The special ability used in any phase, by either player, on a Corp field
\* of a Barrier, a Sentry and an NPU card, with the core damaged or whole.
AbilityFieldCards == {"cB1", "tS23", "cN1"}
AbilityHp         == {3, 5}
AbilityIndices    == -1..3

InitAbility ==
  /\ \E phase \in PhaseType, activePlayer \in PlayerType,
        corpField \in Fields(AbilityFieldCards),
        currentHp \in AbilityHp :
       state = [createInitialState EXCEPT !.turn = 1, !.phase = phase,
                                          !.activePlayer = activePlayer,
                                          !.corp.field = corpField,
                                          !.corp.core.currentHp = currentHp]
  /\ last = NoOp
  /\ destroyed = {}
  /\ cycle = [start |-> Position(state), calls |-> 0]
  /\ gameLoop = GameLoop_constructor
  /\ calc = NoCalc

DoUseBarrierAbilityAt(cap) ==
  \E iceIndex \in AbilityIndices :
    \E r \in {ICEMechanics_useBarrierAbility(state, iceIndex)} :
      StepAt(cap, "useBarrierAbility", "-",
             IF r.threw THEN "threw" ELSE "ok",
             [programIndex |-> -1, iceIndex |-> iceIndex], r.state)

NextAbility == DoUseBarrierAbilityAt(MaxLogAbility)

SpecAbility == InitAbility /\ [][NextAbility]_vars

\* A long game as far as the event log is concerned: entries appended
\* directly and by the change of active player.
NextLog ==
  \/ DoLogEvent(MaxLogRetained)
  \/ DoSwitchActivePlayer(MaxLogRetained)

SpecLog == Init /\ [][NextLog]_vars

\* Turns ended from those states, with the manager's draws in between.
NextEnd ==
  \/ DoDrawCards(MaxLogEnd)
  \/ DoEndTurn(MaxLogEnd)

SpecEnd == InitWin /\ [][NextEnd]_vars

(***************************************************************************)
(* The game loop: a GameLoop fresh from its constructor, whose             *)
(* ActionProcessor works on a GameStateManager of its own.                 *)
(***************************************************************************)
InitLoop ==
  /\ state = createInitialState
  /\ last = [op |-> "constructor", arg |-> "-", outcome |-> "ok", at |-> NoIndices]
  /\ destroyed = {}
  /\ cycle = [start |-> Position(state), calls |-> 0]
  /\ gameLoop = GameLoop_constructor
  /\ calc = NoCalc

\* one step of the loop: the manager's state and the loop's fields after it
LoopStep(op, arg, outcome, s, currentState, exitRequested, pc) ==
  /\ state' = s
  /\ gameLoop' = [currentState |-> currentState,
                  exitRequested |-> exitRequested, pc |-> pc]
  /\ InBounds(state', MaxLogLoop)
  /\ InBounds(gameLoop'.currentState, MaxLogLoop)
  /\ last' = [op |-> op, arg |-> arg, outcome |-> outcome, at |-> NoIndices]
  /\ UNCHANGED <<destroyed, cycle, calc>>

\* start(): currentState = initializeNewGame(), then the first processTurn
GameLoopStart ==
  /\ gameLoop.pc = "start"
  /\ \E c \in {GameLoop_initializeNewGame} :
       LoopStep("start", "-", "ok", state, c, gameLoop.exitRequested,
                GameLoop_processTurn(c, gameLoop.exitRequested))

\* processRunnerTurn on QUIT: requestExit and return
GameLoopRunnerQuit ==
  /\ gameLoop.pc = "processRunnerTurn"
  /\ LoopStep("processRunnerTurn", "QUIT", "ok", state, gameLoop.currentState,
              TRUE, "shutdown")

\* processRunnerTurn on HELP: the help screen, and the loop goes on
GameLoopRunnerHelp ==
  /\ gameLoop.pc = "processRunnerTurn"
  /\ LoopStep("processRunnerTurn", "HELP", "ok", state, gameLoop.currentState,
              gameLoop.exitRequested, gameLoop.pc)

\* processRunnerTurn on any other action: processAction, then the phase
\* bookkeeping on END_PHASE; an error is shown and the loop goes on
GameLoopRunnerAction ==
  /\ gameLoop.pc = "processRunnerTurn"
  /\ \E action \in UserActions :
       /\ action.type \notin {"QUIT", "HELP"}
       /\ \E r \in {processAction(state, action)} :
            IF r.threw
              THEN LoopStep("processRunnerTurn", "-", "threw", r.state,
                            gameLoop.currentState, gameLoop.exitRequested,
                            gameLoop.pc)
            ELSE \E pass \in {GameLoop_runnerPass(r.returned, action)} :
                   LoopStep("processRunnerTurn", action.type, "ok", r.state,
                            pass.currentState, gameLoop.exitRequested,
                            GameLoop_afterPass(gameLoop.pc, pass.complete,
                                               pass.currentState,
                                               gameLoop.exitRequested))

\* processCorpTurn when the policy has an action
GameLoopCorpAction ==
  /\ gameLoop.pc = "processCorpTurn"
  /\ \E corpAction \in {CorpAI_getNextAction(gameLoop.currentState)} :
       /\ corpAction # NoAction
       /\ \E r \in {processAction(state, GameLoop_convertLegacyAction(corpAction))} :
            IF r.threw
              THEN LoopStep("processCorpTurn", "-", "threw", r.state,
                            gameLoop.currentState, gameLoop.exitRequested,
                            gameLoop.pc)
            ELSE \E pass \in {GameLoop_corpPass(r.returned, corpAction)} :
                   LoopStep("processCorpTurn", corpAction.type, "ok", r.state,
                            pass.currentState, gameLoop.exitRequested,
                            GameLoop_afterPass(gameLoop.pc, pass.complete,
                                               pass.currentState,
                                               gameLoop.exitRequested))

\* processCorpTurn when the policy has none: the turn ends
GameLoopCorpNoAction ==
  /\ gameLoop.pc = "processCorpTurn"
  /\ CorpAI_getNextAction(gameLoop.currentState) = NoAction
  /\ \E c \in {TurnManager_endTurn(gameLoop.currentState)} :
       LoopStep("processCorpTurn", "null", "ok", state, c,
                gameLoop.exitRequested,
                GameLoop_processTurn(c, gameLoop.exitRequested))

\* a game from start(): the Runner's first turn ends in TurnManager.endTurn on
\* a copy of the manager's state, which holds no cards, so the game is over
\* before processCorpTurn is ever entered
NextLoop ==
  \/ GameLoopStart
  \/ GameLoopRunnerQuit
  \/ GameLoopRunnerHelp
  \/ GameLoopRunnerAction

SpecLoop == InitLoop /\ [][NextLoop]_vars

\* The Corp's turn taken alone: processCorpTurn entered with the loop's
\* currentState any unfinished state in which the Corp is the active player,
\* and the processor's manager holding either that same state or the state
\* its constructor gave it.
CorpTurnHandCards == {"cN1", "cB1"}
CorpTurnFieldCards == {"cB2"}
CorpTurnRunnerDecks == {<<>>, <<"rN1">>}

InitCorpTurn ==
  /\ \E phase \in PhaseType,
        corpHand \in Fields(CorpTurnHandCards),
        corpField \in Fields(CorpTurnFieldCards),
        runnerDeck \in CorpTurnRunnerDecks,
        npuAvailable \in 0..MaxNpuPolicy :
       /\ gameLoop =
            [currentState |->
               [createInitialState EXCEPT !.turn = 1, !.phase = phase,
                                          !.activePlayer = CORP,
                                          !.runner.deck = runnerDeck,
                                          !.corp.hand = corpHand,
                                          !.corp.field = corpField,
                                          !.corp.npuAvailable = npuAvailable,
                                          !.corp.npuTotal = npuAvailable],
             exitRequested |-> FALSE,
             pc |-> "processCorpTurn"]
       /\ state \in {gameLoop.currentState, createInitialState}
  /\ last = [op |-> "processTurn", arg |-> "-", outcome |-> "ok", at |-> NoIndices]
  /\ destroyed = {}
  /\ cycle = [start |-> Position(state), calls |-> 0]
  /\ calc = NoCalc

NextCorpTurn ==
  \/ GameLoopCorpAction
  \/ GameLoopCorpNoAction

SpecCorpTurn == InitCorpTurn /\ [][NextCorpTurn]_vars

\* processCorpTurn runs without suspension: an iteration that can be taken is
\* taken.
SpecCorpTurnFair == SpecCorpTurn /\ WF_vars(NextCorpTurn)

(***************************************************************************)
(* Properties.                                                             *)
(***************************************************************************)
RunnerDrawStart == cycle.start.phase = DRAW /\ cycle.start.activePlayer = RUNNER

\* a step of GameStateManager.advancePhase changes the turn number only when
\* it leaves the Corp's MAIN phase, and then by one
TurnOnlyAfterCorpMain ==
  last'.op = "advancePhase" =>
    state'.turn = IF state.phase = MAIN /\ state.activePlayer = CORP
                    THEN state.turn + 1
                  ELSE state.turn

\* C1: from the Runner's DRAW phase, four consecutive advancePhase calls of
\* the manager reach the Corp's DRAW phase in the same turn, three more reach
\* the Runner's DRAW phase in the next turn, and no other advancePhase step
\* changes the turn number.
C1_FullCycle ==
  /\ [](RunnerDrawStart =>
          /\ cycle.calls = 4 =>
               Position(state) = [phase |-> DRAW, activePlayer |-> CORP,
                                  turn |-> cycle.start.turn]
          /\ cycle.calls = CycleLength =>
               Position(state) = [phase |-> DRAW, activePlayer |-> RUNNER,
                                  turn |-> cycle.start.turn + 1])
  /\ [][TurnOnlyAfterCorpMain]_vars

C1_Witness ==
  /\ RunnerDrawStart
  /\ cycle.calls = CycleLength
  /\ state.turn = cycle.start.turn + 1

\* C2: in every state the phase sequencers reach, the phase is COMBAT only
\* while the Runner is the active player.
C2_CombatOnlyRunner == state.phase = COMBAT => state.activePlayer = RUNNER

C2_Witness ==
  /\ state.phase = COMBAT
  /\ last.op \in {"PhaseManager.advancePhase", "TurnManager.advanceToNextPhase"}
  /\ state.turn > 1

\* what C3 says a finished game keeps: everything but the event log
Frozen(s, t) ==
  /\ t.runner = s.runner
  /\ t.corp = s.corp
  /\ t.phase = s.phase
  /\ t.activePlayer = s.activePlayer
  /\ t.turn = s.turn
  /\ t.gameOver = s.gameOver
  /\ t.winner = s.winner

\* C3: once gameOver is true, processAction rejects every action but QUIT,
\* and no operation changes a deck, hand, field, resource, the core's health,
\* the phase, the active player, the turn number, gameOver or winner.
C3_NothingAfterGameOver ==
  [][state.gameOver =>
       /\ Frozen(state, state')
       /\ last'.op = "processAction" /\ last'.arg # "QUIT"
            => last'.outcome = "threw"]_vars

\* C4: a call that fails (processAction throws, or playCard or the playCard
\* behind PLAY_NPU / PLAY_CARD refuses the index or the cost) leaves the game
\* state as it was, event log included.
C4_FailureChangesNothing ==
  [][last'.op \in {"processAction", "playCard"}
       /\ last'.outcome \in {"threw", "refused"}
     => state' = state]_vars

\* C5: each side's npuAvailable stays within 0 .. npuTotal.
C5_NpuWithinTotal ==
  /\ 0 <= state.runner.npuAvailable
  /\ state.runner.npuAvailable <= state.runner.npuTotal
  /\ 0 <= state.corp.npuAvailable
  /\ state.corp.npuAvailable <= state.corp.npuTotal

\* C6: the core's currentHp stays within 0 .. maxHp.
C6_HpWithinMax ==
  /\ 0 <= state.corp.core.currentHp
  /\ state.corp.core.currentHp <= state.corp.core.maxHp

\* the Barrier's repair has left the core at full health
C6_Witness ==
  /\ last.op = "useBarrierAbility"
  /\ last.outcome = "ok"
  /\ state.corp.core.currentHp = state.corp.core.maxHp

\* the cards of a side, zone after zone
Zones(side) == side.deck \o side.hand \o side.field

\* C7: for each side deck + hand + field count the cards dealt to it less
\* those of its cards destroyed in combat, and no card is in two places.
C7_CardsConserved ==
  /\ Len(Zones(state.runner)) =
       Len(createRunnerStarterDeck)
         - Cardinality(destroyed \cap Range(createRunnerStarterDeck))
  /\ Len(Zones(state.corp)) =
       Len(createCorpStarterDeck)
         - Cardinality(destroyed \cap Range(createCorpStarterDeck))
  /\ Cardinality(Range(Zones(state.runner) \o Zones(state.corp))) =
       Len(Zones(state.runner) \o Zones(state.corp))

\* a block in which both the program and the ICE were destroyed
C7_Witness ==
  /\ last.op = "declareBlock"
  /\ Cardinality(destroyed) = 2
  /\ Len(state.runner.field) = 0 /\ Len(state.corp.field) = 0

\* C8: when the core's currentHp is 0 the game is over and the Runner has
\* won; the operation that brings it to 0 sets both in the same step.
C8_ZeroHpEndsGame ==
  state.corp.core.currentHp = 0 =>
    state.gameOver /\ state.winner = RUNNER

\* a draw for the Corp, in its DRAW phase, from an empty deck: the draw of
\* PhaseManager.advancePhase on entry, or a call of the manager's drawCards
CorpDrawsFromEmptyDeck ==
  /\ Len(state.corp.deck) = 0
  /\ state'.activePlayer = CORP /\ state'.phase = DRAW
  /\ \/ last'.op = "PhaseManager.advancePhase"
     \/ /\ last'.op = "drawCards" /\ last'.arg = CORP
        /\ last'.outcome = "empty"
        /\ state.activePlayer = CORP /\ state.phase = DRAW

\* C9: a draw attempted for the Corp from an empty deck in its DRAW phase
\* ends the game in that step, with the Runner the winner.
C9_CorpEmptyDeckEndsGame ==
  [][CorpDrawsFromEmptyDeck => state'.gameOver /\ state'.winner = RUNNER]_vars

\* C10: drawCards(RUNNER, n), n >= 1, on an empty Runner deck during a DRAW
\* phase ends the game with the Corp the winner.
C10_RunnerEmptyDeckCorpWins ==
  last.op = "drawCards" /\ last.arg = RUNNER /\ last.outcome = "empty"
    /\ state.phase = DRAW
  => state.gameOver /\ state.winner = CORP

\* the operations that advance the phase
PhaseAdvanceOps ==
  {"advancePhase", "PhaseManager.advancePhase", "TurnManager.advanceToNextPhase",
   "TurnManager.endTurn", "TurnManager.startNewTurn"}

\* between s and t, player has drawn the card at the front of its deck and
\* no other zone of either side has changed
DrewOne(s, t, player) ==
  LET before == PlayerState(s, player)
      after  == PlayerState(t, player)
      other  == getOppositePlayer(player)
  IN /\ after.deck = Tail(before.deck)
     /\ after.hand = Append(before.hand, Head(before.deck))
     /\ after.field = before.field
     /\ PlayerState(t, other).deck = PlayerState(s, other).deck
     /\ PlayerState(t, other).hand = PlayerState(s, other).hand
     /\ PlayerState(t, other).field = PlayerState(s, other).field

\* C11: a phase-advance step that ends in the DRAW phase moves the card at
\* the front of the new active player's non-empty deck to that player's hand
\* and changes no other zone.
C11_DrawOnEntry ==
  [][/\ last'.op \in PhaseAdvanceOps
     /\ state'.phase = DRAW
     /\ Len(PlayerState(state, state'.activePlayer).deck) > 0
     => DrewOne(state, state', state'.activePlayer)]_vars

\* C12: a phase-advance step that ends in the NPU phase leaves the active
\* player with npuAvailable = npuTotal, npuTotal as it was, and the other
\* player's npuAvailable and npuTotal as they were.
C12_RefreshOnEntry ==
  [][/\ last'.op \in PhaseAdvanceOps
     /\ state'.phase = NPU
     => LET player == state'.activePlayer
            other  == getOppositePlayer(player)
        IN /\ PlayerState(state', player).npuAvailable
                = PlayerState(state, player).npuTotal
           /\ PlayerState(state', player).npuTotal
                = PlayerState(state, player).npuTotal
           /\ PlayerState(state', other).npuAvailable
                = PlayerState(state, other).npuAvailable
           /\ PlayerState(state', other).npuTotal
                = PlayerState(state, other).npuTotal]_vars

\* t is s after player has played the card at 0-based index i of its hand
PlayedFromHand(s, t, player, i) ==
  LET before == PlayerState(s, player)
      after  == PlayerState(t, player)
      other  == getOppositePlayer(player)
      card   == before.hand[i + 1]
  IN /\ Len(after.hand) = Len(before.hand) - 1
     /\ \A j \in 1..Len(after.hand) :
          after.hand[j] = IF j <= i THEN before.hand[j] ELSE before.hand[j + 1]
     /\ Len(after.field) = Len(before.field) + 1
     /\ \A j \in 1..Len(before.field) : after.field[j] = before.field[j]
     /\ after.field[Len(after.field)] = card
     /\ after.npuAvailable = before.npuAvailable - Card(card).cost
     /\ after.deck = before.deck
     /\ PlayerState(t, other).deck = PlayerState(s, other).deck
     /\ PlayerState(t, other).hand = PlayerState(s, other).hand
     /\ PlayerState(t, other).field = PlayerState(s, other).field
     /\ t.corp.core = s.corp.core

\* C13: playCard(player, i) with a valid index and an affordable card takes
\* the i-th card out of the hand, keeps the order of the rest, appends it to
\* the field, lowers npuAvailable by its cost and leaves that player's deck,
\* the other player's zones and the core alone.
C13_PlayCardEffect ==
  \A player \in PlayerType, i \in Indices :
    /\ 0 <= i /\ i < Len(PlayerState(state, player).hand)
    /\ Card(PlayerState(state, player).hand[i + 1]).cost
         <= PlayerState(state, player).npuAvailable
    => PlayedFromHand(state, playCard(state, player, i), player, i)

\* a card was played from the middle of a hand onto a field that held a card
C13_Witness ==
  /\ last.op = "playCard" /\ last.outcome = "ok" /\ last.arg = RUNNER
  /\ Len(state.runner.field) = 2
  /\ Len(state.runner.hand) = 1

PlayActionTypes == {"PLAY_NPU", "PLAY_CARD"}

\* the step is a card play that succeeded: playCard called directly, or
\* behind an accepted PLAY_NPU / PLAY_CARD action
CardPlayed ==
  /\ last'.outcome = "ok"
  /\ \/ last'.op = "playCard"
     \/ last'.op = "processAction" /\ last'.arg \in PlayActionTypes

\* the side that played: playCard's argument, the Runner behind an action
PlayingSide == IF last'.op = "playCard" THEN last'.arg ELSE RUNNER

\* C14: a successful play of an NPU card raises the playing side's npuTotal
\* by one, and a successful play of a Program or ICE card leaves it as it was.
C14_NpuPlayRaisesTotal ==
  [][CardPlayed =>
       LET before == PlayerState(state, PlayingSide)
           after  == PlayerState(state', PlayingSide)
           played == after.field[Len(after.field)]
       IN after.npuTotal =
            before.npuTotal + (IF Card(played).type = NPU THEN 1 ELSE 0)]_vars

\* C15: a card play with an out-of-range index or an unaffordable card ends
\* in an error: playCard does not return normally from a refusing branch, and
\* processAction throws for a PLAY_NPU / PLAY_CARD action that leads to one.
C15_RefusalIsAnError ==
  /\ last.op \in {"playCard", "processAction"} => last.outcome # "refused"
  /\ \A action \in UserActions :
       /\ action.type \in PlayActionTypes
       /\ action.payload # NoPayload
       /\ validateAction(action, state)
       /\ playCardRefused(state, RUNNER, action.payload.cardIndex)
       => processAction(state, action).threw

MetaActionTypes == {"HELP", "QUIT", "SAVE", "LOAD"}

\* C17: while the Corp is active and the game is not over, processAction
\* returns without an error and without a change of the stored state for
\* HELP, QUIT, SAVE and LOAD, and throws for every other action.
C17_CorpTurnMetaActions ==
  state.activePlayer = CORP /\ ~state.gameOver =>
    \A action \in UserActions :
      LET r == processAction(state, action)
      IN IF action.type \in MetaActionTypes
           THEN ~r.threw /\ r.state = state
         ELSE r.threw

\* the passes of the turn routines in which processAction returned
ProcessedByLoop ==
  /\ last.op \in {"processRunnerTurn", "processCorpTurn"}
  /\ last.outcome = "ok"
  /\ last.arg \in ActionType \cup {"PlayNPU", "PlayCard", "EndPhase", "Block"}
  /\ last.arg \notin {"QUIT", "HELP"}

\* C18: there is a single authoritative game state: after every action the
\* game loop processes, GameLoop.currentState equals the state held by the
\* GameStateManager the ActionProcessor mutates
C18_SingleState == ProcessedByLoop => gameLoop.currentState = state

\* a declareBlock that returned, with a blocker / without one
BlockedStep ==
  /\ last'.op = "declareBlock"
  /\ last'.outcome = "ok"
  /\ last'.at.iceIndex # -1

UnblockedStep ==
  /\ last'.op = "declareBlock"
  /\ last'.outcome = "ok"
  /\ last'.at.iceIndex = -1

\* C19: in a blocked attack the attacker leaves the Runner's field iff the
\* blocker's damage >= the attacker's toughness, and the blocker leaves the
\* Corp's field iff the attacker's damage >= the blocker's toughness; both
\* damages come from the cards as they were before the combat, and every
\* other field card keeps its place in the order
C19_BlockedDestruction ==
  [][BlockedStep =>
       LET programIndex == last'.at.programIndex
           iceIndex     == last'.at.iceIndex
           attacker     == state.runner.field[programIndex + 1]
           blocker      == state.corp.field[iceIndex + 1]
           attackerDamage ==
             ProgramMechanics_calculateDamage(Card(attacker), Card(blocker).sub)
           blockerDamage == ICEMechanics_calculateDamage(Card(blocker))
       IN /\ state'.runner.field =
               IF blockerDamage >= Card(attacker).toughness
                 THEN RemoveAt(state.runner.field, programIndex)
               ELSE state.runner.field
          /\ state'.corp.field =
               IF attackerDamage >= Card(blocker).toughness
                 THEN RemoveAt(state.corp.field, iceIndex)
               ELSE state.corp.field]_vars

\* a block in which only the attacker was destroyed, beside other cards
C19_Witness ==
  /\ last.op = "declareBlock"
  /\ last.outcome = "ok"
  /\ last.at.iceIndex # -1
  /\ destroyed = {"tP32"}
  /\ state.runner.field = <<"rF1", "tP14">>
  /\ state.corp.field = <<"tI15", "cB1">>

C21_ProgramDamage ==
  calc.op = "ProgramMechanics.calculateDamage" =>
    LET power == calc.input.program.power
    IN calc.result =
         IF calc.input.program.sub = FRACTER /\ calc.input.iceType = BARRIER
           THEN power + power \div 2
         ELSE power

\* a power-3 Fracter has dealt 4 to a Barrier
C21_Witness ==
  /\ calc.op = "ProgramMechanics.calculateDamage"
  /\ calc.input.program.sub = FRACTER
  /\ calc.input.program.power = 3
  /\ calc.input.iceType = BARRIER
  /\ calc.result = 4

\* C22: an ICE card deals its power + 1 when its subtype is BARRIER and
\* exactly its power for every other subtype
C22_IceDamage ==
  calc.op = "ICEMechanics.calculateDamage" =>
    calc.result = calc.input.ice.power
                    + (IF calc.input.ice.sub = BARRIER THEN 1 ELSE 0)

\* a power-2 Barrier has dealt 3
C22_Witness ==
  /\ calc.op = "ICEMechanics.calculateDamage"
  /\ calc.input.ice.sub = BARRIER
  /\ calc.input.ice.power = 2
  /\ calc.result = 3

\* C23: a declareAttack that is accepted appends one entry to the log and
\* changes nothing else: core health, fields, hands, decks, resources, phase,
\* active player, turn, gameOver and winner are as before
C23_DeclareAttackOnlyLogs ==
  [][(last'.op = "declareAttack" /\ last'.outcome = "ok") =>
       /\ state'.eventLog = state.eventLog + 1
       /\ Frozen(state, state')]_vars

\* an attack has been declared with programs and ICE on the fields
C23_Witness ==
  /\ last.op = "declareAttack"
  /\ last.outcome = "ok"
  /\ Len(state.runner.field) > 1
  /\ Len(state.corp.field) > 0
  /\ state.corp.core.currentHp > 0

\* the indices handed to declareAttack and declareBlock in C24
CombatIndices == -2..2

\* an index of a PROGRAM on the Runner's field, in the Runner's COMBAT phase
EligibleAttacker(s, programIndex) ==
  /\ programIndex \in 0..(Len(s.runner.field) - 1)
  /\ Card(s.runner.field[programIndex + 1]).type = PROGRAM
  /\ s.phase = COMBAT
  /\ s.activePlayer = RUNNER

\* an index of an ICE card on the Corp's field, in the Runner's COMBAT phase
EligibleBlocker(s, iceIndex) ==
  /\ iceIndex \in 0..(Len(s.corp.field) - 1)
  /\ Card(s.corp.field[iceIndex + 1]).type = ICE
  /\ s.phase = COMBAT
  /\ s.activePlayer = RUNNER

\* C24: declareAttack with an ineligible attacker index, and declareBlock with
\* an ineligible attacker index or an ineligible blocker index (-1 names no
\* blocker), raise a CombatError and leave the game state unchanged
C24_IneligibleIsAnError ==
  /\ [](\A programIndex \in CombatIndices :
          ~EligibleAttacker(state, programIndex) =>
            /\ CombatResolver_declareAttack(state, programIndex).threw
            /\ CombatResolver_declareAttack(state, programIndex).state = state
            /\ \A iceIndex \in CombatIndices :
                 /\ CombatResolver_declareBlock(state, programIndex, iceIndex).threw
                 /\ CombatResolver_declareBlock(state, programIndex, iceIndex).state = state)
  /\ [](\A programIndex \in CombatIndices, iceIndex \in CombatIndices \ {-1} :
          ~EligibleBlocker(state, iceIndex) =>
            /\ CombatResolver_declareBlock(state, programIndex, iceIndex).threw
            /\ CombatResolver_declareBlock(state, programIndex, iceIndex).state = state)
  /\ [][(last'.op \in {"declareAttack", "declareBlock"} /\ last'.outcome = "threw")
          => state' = state]_vars

\* a block was refused although a program could attack: the blocker named
\* is not an ICE card on the Corp's field
C24_Witness ==
  /\ last.op = "declareBlock"
  /\ last.outcome = "threw"
  /\ last.arg = "blocked"
  /\ EligibleAttacker(state, 0)
  /\ state.corp.field = <<"cN1", "cB1">>

\* the hand indices (from 0) of the Corp's cards of a type that it can pay
Affordable(s, type) ==
  {i \in 0..(Len(s.corp.hand) - 1) :
     /\ Card(s.corp.hand[i + 1]).type = type
     /\ Card(s.corp.hand[i + 1]).cost <= s.corp.npuAvailable}

\* the action names the lowest index of the set
NamesLowest(action, indices) ==
  /\ action.index \in indices
  /\ \A j \in indices : action.index <= j

\* C25: in the Corp's MAIN phase the policy returns PlayNPU with the lowest
\* hand index of an affordable NPU card if there is one, otherwise PlayCard
\* with the lowest hand index of an affordable ICE card if there is one,
\* otherwise EndPhase
C25_MainPhasePolicy ==
  (/\ calc.op = "CorpAI.getNextAction"
   /\ calc.input.activePlayer = CORP
   /\ calc.input.phase = MAIN) =>
    IF Affordable(calc.input, NPU) # {}
      THEN /\ calc.result.type = "PlayNPU"
           /\ NamesLowest(calc.result, Affordable(calc.input, NPU))
    ELSE IF Affordable(calc.input, ICE) # {}
      THEN /\ calc.result.type = "PlayCard"
           /\ NamesLowest(calc.result, Affordable(calc.input, ICE))
    ELSE calc.result.type = "EndPhase"

\* the Corp cannot pay its first NPU card and plays the second, past an ICE
\* card it could pay as well
C25_Witness ==
  /\ calc.op = "CorpAI.getNextAction"
  /\ calc.input.activePlayer = CORP
  /\ calc.input.phase = MAIN
  /\ calc.input.corp.hand = <<"tN2", "cB1", "cN1">>
  /\ calc.input.corp.npuAvailable = 1
  /\ calc.result = LegacyAction("PlayNPU", 2)

\* C26: during the Runner's COMBAT phase the policy returns a Block naming
\* the lowest Corp field index for which ICEMechanics.canBlock holds, and no
\* action when the field is empty or no field card can block
C26_BlockingPolicy ==
  (/\ calc.op = "CorpAI.getNextAction"
   /\ calc.input.activePlayer = RUNNER
   /\ calc.input.phase = COMBAT) =>
    LET blocking == {i \in 0..(Len(calc.input.corp.field) - 1) :
                       ICEMechanics_canBlock(calc.input, i)}
    IN IF blocking = {} THEN calc.result = NoAction
       ELSE /\ calc.result.type = "Block"
            /\ NamesLowest(calc.result, blocking)

\* the Corp blocks with the older of its two ICE, the second card of its field
C26_Witness ==
  /\ calc.op = "CorpAI.getNextAction"
  /\ calc.input.activePlayer = RUNNER
  /\ calc.input.phase = COMBAT
  /\ calc.input.corp.field = <<"cN2", "tI15", "cB2">>
  /\ calc.result = LegacyAction("Block", 1)

C28_OpeningHands ==
  last.op \in {"GameStateManager.setupGame", "PhaseManager.setupNewGame"} =>
    /\ Len(state.runner.hand) = 7
    /\ Len(state.corp.hand) = 4
    /\ Len(state.runner.deck) = 6
    /\ Len(state.corp.deck) = 4
    /\ state.activePlayer = RUNNER
    /\ state.turn = 1

\* GameStateManager.setupGame has dealt the hands C28 describes
C28_Witness ==
  /\ last.op = "GameStateManager.setupGame"
  /\ Len(state.runner.hand) = 7
  /\ Len(state.corp.hand) = 4
  /\ Len(state.runner.deck) = 6
  /\ Len(state.corp.deck) = 4

\* C29: PhaseManager.advancePhase raises the turn number by exactly 1 on the
\* transition that begins the Corp's DRAW phase and leaves it unchanged on
\* every other transition; TurnManager.startNewTurn raises it by 1 when the
\* new active player is the Corp and never when it is the Runner
C29_TurnCounter ==
  [][/\ last'.op = "PhaseManager.advancePhase" =>
          state'.turn = state.turn
                          + (IF state'.activePlayer = CORP /\ state'.phase = DRAW
                               THEN 1 ELSE 0)
     /\ last'.op = "TurnManager.startNewTurn" =>
          /\ state'.activePlayer = getOppositePlayer(state.activePlayer)
          /\ state'.turn = state.turn
                             + (IF state'.activePlayer = CORP THEN 1 ELSE 0)]_vars

\* the Runner's COMBAT phase has ended and the Corp's second-turn DRAW begun
C29_Witness ==
  /\ last.op = "PhaseManager.advancePhase"
  /\ state.activePlayer = CORP
  /\ state.phase = DRAW
  /\ state.turn = 2

\* C30: what TurnManager.checkWinConditions declares.  The Runner is out of
\* the game when they have no PROGRAM on the field, no card in hand and no
\* card in deck; a call declares a winner when it ends the game in that
\* player's favour with one log entry.
RunnerExhausted(s) ==
  /\ \A i \in 1..Len(s.runner.field) : Card(s.runner.field[i]).type # PROGRAM
  /\ Len(s.runner.hand) = 0
  /\ Len(s.runner.deck) = 0

Declares(winner) ==
  state' = [state EXCEPT !.gameOver = TRUE, !.winner = winner,
                         !.eventLog = @ + 1]

WinConditionHolds(s) == s.corp.core.currentHp <= 0 \/ RunnerExhausted(s)

WinChecks == {"checkWinCondition", "TurnManager.checkWinConditions"}

C32_WinCheckIdempotent ==
  [][(last'.op \in WinChecks /\ state.gameOver) => state' = state]_vars

\* C33: the event log is bounded: appending an entry applies a retention
\* trim, so the log never holds more than MAX_LOG_ENTRIES entries
C33_LogBounded == state.eventLog <= MAX_LOG_ENTRIES

\* C34: useBarrierAbility by a BARRIER ICE on the Corp's field during the
\* Corp's MAIN phase raises the core's currentHp by exactly 1 unless it is
\* already at maxHp, and never above maxHp; for a non-Barrier card, an
\* invalid index, or any other phase or active player it raises an error and
\* leaves the state unchanged
BarrierAbilityUsable(s, iceIndex) ==
  /\ iceIndex \in 0..(Len(s.corp.field) - 1)
  /\ Card(s.corp.field[iceIndex + 1]).type = ICE
  /\ Card(s.corp.field[iceIndex + 1]).sub = BARRIER
  /\ s.phase = MAIN
  /\ s.activePlayer = CORP

C34_BarrierAbility ==
  [][last'.op = "useBarrierAbility" =>
       IF BarrierAbilityUsable(state, last'.at.iceIndex)
         THEN /\ last'.outcome = "ok"
              /\ state'.corp.core.currentHp =
                   (IF state.corp.core.currentHp = state.corp.core.maxHp
                      THEN state.corp.core.currentHp
                      ELSE state.corp.core.currentHp + 1)
              /\ state'.corp.core.currentHp <= state'.corp.core.maxHp
              /\ state'.corp.field = state.corp.field
         ELSE last'.outcome = "threw" /\ state' = state]_vars

\* the Barrier behind a Sentry has healed a core of 3 twice, to its maxHp
C34_Witness ==
  /\ last.op = "useBarrierAbility" /\ last.outcome = "ok"
  /\ last.at.iceIndex = 1
  /\ state.corp.field = <<"tS23", "cB1">>
  /\ state.corp.core.currentHp = state.corp.core.maxHp
  /\ state.eventLog = 2

\* C35: for every state in which the Corp is the active player and the game
\* is not over, the action the opponent policy returns (CorpAI.getNextAction,
\* converted by convertLegacyAction) is accepted by processAction, not
\* rejected
C35_PolicyActionAccepted ==
  (last.op = "processCorpTurn" /\ last.arg # "null") => last.outcome = "ok"

ResolverAttack(s, programIndex) ==
  LET declared == CombatResolver_declareAttack(s, programIndex)
      decision == CorpAI_getBlockingDecision(declared.state)
      iceIndex == IF decision = NoAction THEN -1 ELSE decision.index
  IN IF declared.threw THEN declared
     ELSE CombatResolver_declareBlock(declared.state, programIndex, iceIndex)

\* C37: an ATTACK action processed by processAttack yields the same core
\* health and field contents as declareAttack followed by declareBlock with
\* the blocker the opponent policy chooses: when the Corp has ICE that can
\* block, the attack is blocked and the core takes no damage.  Stated for the
\* attacks of a PROGRAM, which both paths accept.
C37_AttackAsResolver ==
  [][(last'.op = "processAction" /\ last'.arg = "ATTACK"
        /\ last'.outcome = "ok"
        /\ ProgramMechanics_canAttack(state, last'.at.programIndex)) =>
       \E r \in {ResolverAttack(state, last'.at.programIndex)} :
         /\ ~r.threw
         /\ state'.corp.core.currentHp = r.state.corp.core.currentHp
         /\ state'.runner.field = r.state.runner.field
         /\ state'.corp.field = r.state.corp.field]_vars

\* C38: an ATTACK action whose programIndex names a card on the Runner's
\* field that is not a PROGRAM (an installed NPU card) is rejected with an
\* error and leaves the core's health unchanged
NamesNonProgram(s, programIndex) ==
  /\ programIndex \in 0..(Len(s.runner.field) - 1)
  /\ Card(s.runner.field[programIndex + 1]).type # PROGRAM

C38_NonProgramAttackRejected ==
  [][(last'.op = "processAction" /\ last'.arg = "ATTACK"
        /\ NamesNonProgram(state, last'.at.programIndex)) =>
       /\ last'.outcome = "threw"
       /\ state'.corp.core.currentHp = state.corp.core.currentHp]_vars

\* C39: the two phase sequencers agree: for every non-terminal state,
\* GameStateManager.advancePhase and TurnManager.advanceToNextPhase produce
\* the same next phase, the same next active player and the same next turn
\* number.  Non-terminal: the game is not over and no win condition holds.
SamePosition(s1, s2) ==
  /\ s1.phase = s2.phase
  /\ s1.activePlayer = s2.activePlayer
  /\ s1.turn = s2.turn

C39_SequencersAgree ==
  [][(~state.gameOver /\ ~WinConditionHolds(state)) =>
       /\ last'.op = "advancePhase" =>
            SamePosition(state', TurnManager_advanceToNextPhase(state))
       /\ last'.op = "TurnManager.advanceToNextPhase" =>
            SamePosition(state', advancePhase(state))]_vars

====
